---------------------------- MODULE Spec2Model ----------------------------
(***************************************************************************)
(* Flowmatics agent execution core: the per-conversation AgentState, the   *)
(* turn loop (api.chat_endpoint / AgentService.run_cycle), the EXECUTE,    *)
(* EDA, UNDO and EXPORT nodes, the undo history, and the sandboxed         *)
(* executor exec_code with its supervised worker process.                  *)
(*                                                                         *)
(* Tables are abstracted to a content value 1..NumTables; store keys       *)
(* (uuid4 strings) to the integers 1..MaxKeys, the empty key "" to 0.      *)
(* Messages and errors are abstracted to the tag of the statement that     *)
(* produces them.                                                          *)
(*                                                                         *)
(* Spec and LiveSpec are one conversation: upload, chat turns and REPL     *)
(* requests.  PureSpec applies validate_code, compare_dataframes and the   *)
(* command parsing to enumerated arguments.  ConcSpec runs the code action *)
(* of several turns at once on one AgentState.  LogSpec follows the undo   *)
(* stack through code attempts and undo turns.  CacheSpec follows one      *)
(* EXECUTE step at a time through the completion cache.                    *)
(* StoreSpec adds the uploads and deletions of other sessions and the      *)
(* age-based cleanup of the table store.  SessSpec is SessionService: the  *)
(* session files and their index under save_session and delete_session.    *)
(***************************************************************************)
EXTENDS Integers, Sequences, FiniteSets, TLC

\* ------------------------------------------------------------------ bounds
MaxTurns == 2           \* requests (chat turns and REPL requests) served
MaxKeys == 5
NumTables == 2

MaxPatterns == 2      \* denylist entries occurring together in one code text
MaxCells == 3         \* cells of a table handed to compare_dataframes
MaxParallel == 2      \* turns that may run at once on one AgentState
MaxLogKeys == 7       \* store keys handed out in a conversation of whole turns
MaxPrompts == 2        \* distinct prompts built by EXECUTE steps
MaxCacheSteps == 2     \* EXECUTE steps followed through the cache
MaxOthers == 1          \* other sessions alive at a time
MaxSessions == 2        \* session ids handed to SessionService
MaxCalls == 3           \* save_session / delete_session calls started
MaxTail == 2          \* characters following the command word of an instruction

\* ------------------------------------------------------- program constants
MAX_RETRIES == 3
SafetyCeiling == 20
max_code_length == 10000
DiffRowCeiling == 10000

NoKey == 0
NoTable == 0
Tables == 1..NumTables
\* Table contents are opaque labels: the uploaded file's content is the
\* label 1, and a submitted code can leave any label, equal to it or not.
UploadedTables == {1}
Keys == 1..MaxKeys

VARIABLES
    impl,            \* "service": AgentService + execution_service; "api": backend.py nodes
    llm_ok,          \* FALSE when the LLM client failed to initialise (llm is None)
    store,           \* DiskStore: key -> table, for the keys that exist
    nextKey,         \* the next fresh key write_df hands out
    raw_id, work_id, history, next_node, user_message, error,
    export_filename, retry_count, last_tool,        \* AgentState
    phase,           \* "new" | "idle" | "running" | "exec"
    safety,          \* the loop's iteration counter
    tool,            \* chat_endpoint's local tool
    turns,           \* number of turns started
    attempts,        \* EXECUTE node invocations of the current turn
    rc0,             \* retry_count at the start of the current turn
    lastStep,        \* outcome tag of the last node step
    snap,            \* AgentState data before the last code action / push
    call,            \* arguments of the turn's last exec_code call
    sup,             \* supervisor position inside exec_code
    worker,          \* worker process position
    return_dict,     \* the manager dict shared with the worker
    result,          \* the tuple that call returned
    pure,            \* a pure function under test: its arguments and its value
    conc,            \* turns run in parallel on one AgentState: their locals
    repls,           \* number of REPL requests served
    sessions_meta,   \* api.sessions_meta[session_id]: the handle recorded for the session
    repl_reply,      \* the last REPL request since the last turn: its script's
                     \* denylist entries and the type of the response
    undo_log,        \* the tables made by the code actions since the last undo,
                     \* and the undo turns since
    llm_cache,       \* cache.llm_cache and the position of one EXECUTE step in
                     \* its lookup / completion call / store statements
    other_meta,      \* api.sessions_meta of the other sessions: the handles recorded
    sess             \* the sessions directory of SessionService and the calls
                     \* in progress on it

agentVars == <<raw_id, work_id, history, next_node, user_message, error,
               export_filename, retry_count, last_tool>>
loopVars == <<phase, safety, tool, turns, attempts, rc0>>
execVars == <<call, sup, worker, return_dict, result>>
vars == <<impl, llm_ok, store, nextKey, agentVars, loopVars, lastStep, snap, execVars,
          pure, conc, repls, sessions_meta, repl_reply, undo_log, llm_cache,
          other_meta, sess>>

\* ------------------------------------------------------------------ store
\* DiskStore.write_df: the table is stored under a fresh uuid4 key.
write_df(st, key, tbl) == [k \in (DOMAIN st) \cup {key} |-> IF k = key THEN tbl ELSE st[k]]

\* DiskStore.get_df raises FileNotFoundError when the key has no file.
get_df_ok(st, key) == key \in DOMAIN st

\* ------------------------------------------------------------ undo history
UndoEntry(desc, key) == [description |-> desc, snapshot_key |-> key]

\* AgentState.push_undo: effective only with a working handle whose table
\* can be read; the table is duplicated under a fresh key and appended.
push_undo_applies(st, wid) == wid /= NoKey /\ get_df_ok(st, wid)

\* Variant: the entry names the working handle itself, not the duplicate.
push_undo_history_alias(st, wid, hist, key, desc) ==
    IF push_undo_applies(st, wid) THEN Append(hist, UndoEntry(desc, wid)) ELSE hist

\* Variant: the snapshot is stored but no entry is appended.
push_undo_history_skip(st, wid, hist, key, desc) == hist

push_undo_history(st, wid, hist, key, desc) ==
    IF push_undo_applies(st, wid) THEN Append(hist, UndoEntry(desc, key)) ELSE hist

\* Variant: the snapshot duplicates the oldest stored table.
push_undo_store_oldest(st, wid, key) ==
    IF push_undo_applies(st, wid)
    THEN write_df(st, key, st[CHOOSE k \in DOMAIN st : \A j \in DOMAIN st : k <= j])
    ELSE st

push_undo_store(st, wid, key) ==
    IF push_undo_applies(st, wid) THEN write_df(st, key, st[wid]) ELSE st

\* Variant: the working handle is restored but the entry is not removed.
undo_nopop(wid, hist) ==
    IF hist = <<>>
    THEN [work_id |-> wid, history |-> hist, msg |-> "Nothing to undo."]
    ELSE [work_id |-> hist[Len(hist)].snapshot_key, history |-> hist, msg |-> "Undone"]

\* Variant: undo on an empty stack drops the working handle.
undo_drop(wid, hist) ==
    IF hist = <<>>
    THEN [work_id |-> NoKey, history |-> hist, msg |-> "Nothing to undo."]
    ELSE [work_id |-> hist[Len(hist)].snapshot_key,
          history |-> SubSeq(hist, 1, Len(hist) - 1),
          msg |-> "Undone"]

\* Variant: undo on an empty stack reports a restored entry.
undo_silent(wid, hist) ==
    IF hist = <<>>
    THEN [work_id |-> wid, history |-> hist, msg |-> "Undone"]
    ELSE [work_id |-> hist[Len(hist)].snapshot_key,
          history |-> SubSeq(hist, 1, Len(hist) - 1),
          msg |-> "Undone"]

\* AgentState.undo: [work_id, history, message] after the pop.
undo(wid, hist) ==
    IF hist = <<>>
    THEN [work_id |-> wid, history |-> hist, msg |-> "Nothing to undo."]
    ELSE [work_id |-> hist[Len(hist)].snapshot_key,
          history |-> SubSeq(hist, 1, Len(hist) - 1),
          msg |-> "Undone"]

NoSnap == [op |-> "none", work |-> NoKey, hist |-> <<>>, tbl |-> NoTable,
           pushed |-> FALSE, new |-> NoTable]
NoCode == [len |-> 0, pats |-> {}, behav |-> "none", tbl |-> NoTable, out |-> ""]
NoCall == [code |-> NoCode, df |-> NoTable]
NoSession == -1
NoSess == [on |-> FALSE]
Prompts == 1..MaxPrompts
NoRes == [action |-> "None", content |-> "None"]
NoEntry == [value |-> NoRes, fresh |-> FALSE]
NoCache == [on |-> FALSE, enable_cache |-> FALSE, entries |-> [p \in Prompts |-> NoEntry],
            pc |-> "idle", prompt |-> 0, res |-> NoRes, before |-> NoEntry,
            log |-> <<>>, steps |-> 0]
NoLog == [on |-> FALSE, made |-> <<>>, depth |-> 0, undone |-> 0, failed |-> FALSE]
NoReply == [pats |-> {}, type |-> "none"]
NoResult == [df |-> NoTable, err |-> "None", out |-> ""]
EmptyDict == [success |-> FALSE, df |-> NoTable, error |-> "unset", stdout |-> "unset"]
NoDf == [len |-> -1, columns |-> <<>>, index |-> <<>>, rows |-> <<>>]
NoPure == [fn |-> "none", code |-> NoCode, df_old |-> NoDf, df_new |-> NoDf,
           text |-> <<>>, done |-> FALSE, out |-> <<>>]
ParallelTurns == 1..MaxParallel
NoConc == [on |-> FALSE, serialised |-> TRUE,
           pc |-> [t \in ParallelTurns |-> "idle"],
           base |-> [t \in ParallelTurns |-> NoKey],
           df |-> [t \in ParallelTurns |-> NoTable],
           new_df |-> [t \in ParallelTurns |-> NoTable],
           prev |-> NoTable, lost |-> FALSE, stale_top |-> FALSE]

\* A fresh AgentState(), an empty store, no request in progress.
FreshState ==
    /\ store = << >>
    /\ nextKey = 1
    /\ raw_id = NoKey /\ work_id = NoKey /\ history = <<>>
    /\ next_node = "upload" /\ user_message = "" /\ error = "None"
    /\ export_filename = "cleaned.csv" /\ retry_count = 0 /\ last_tool = "None"
    /\ phase = "new" /\ safety = 0 /\ tool = "None" /\ turns = 0
    /\ attempts = 0 /\ rc0 = 0
    /\ lastStep = "none" /\ snap = NoSnap
    /\ call = NoCall /\ sup = "none" /\ worker = "none"
    /\ return_dict = EmptyDict /\ result = NoResult
    /\ repls = 0 /\ sessions_meta = NoSession /\ repl_reply = NoReply
    /\ other_meta = {}

Init ==
    /\ impl \in {"service", "api"}
    /\ llm_ok \in BOOLEAN
    /\ FreshState
    /\ pure = NoPure /\ conc = NoConc /\ undo_log = NoLog /\ llm_cache = NoCache /\ sess = NoSess

\* ----------------------------------------------------------------- upload
\* AgentService.upload / upload_node: parse the file, store it, -> eda;
\* a parse failure records the error and goes to human_input.  api.upload
\* records the state's working handle in sessions_meta before it looks at
\* the error.
Upload ==
    /\ phase = "new"
    /\ \/ \E tbl \in UploadedTables :
            /\ store' = write_df(store, nextKey, tbl)
            /\ raw_id' = nextKey /\ work_id' = nextKey
            /\ nextKey' = nextKey + 1
            /\ user_message' = "Loaded"
            /\ next_node' = "eda"
            /\ error' = error
       \/ /\ error' = "Upload failed"
          /\ next_node' = "human_input"
          /\ UNCHANGED <<store, nextKey, raw_id, work_id, user_message>>
    /\ phase' = "idle"
    /\ lastStep' = "upload"
    /\ sessions_meta' = IF impl = "api" THEN work_id' ELSE sessions_meta
    /\ UNCHANGED <<pure, conc, repls, repl_reply, undo_log, llm_cache, other_meta, sess, impl, llm_ok, history, export_filename, retry_count, last_tool,
                   safety, tool, turns, attempts, rc0, snap, execVars>>

\* ------------------------------------------------------------ turn entry
\* Instruction texts a caller may send.  A text is handled as its sequence
\* of characters; chars tabulates it for the texts of the model.
Instructions == {"undo", "/UNDO", "/export", "/Export out.csv", "double value"}

chars(text) ==
    CASE text = "undo" -> <<"u", "n", "d", "o">>
      [] text = "/undo" -> <<"/", "u", "n", "d", "o">>
      [] text = "/UNDO" -> <<"/", "U", "N", "D", "O">>
      [] text = "/export" -> <<"/", "e", "x", "p", "o", "r", "t">>
      [] text = "/Export out.csv" ->
             <<"/", "E", "x", "p", "o", "r", "t", " ", "o", "u", "t", ".", "c", "s", "v">>
      [] text = "out.csv" -> <<"o", "u", "t", ".", "c", "s", "v">>
      [] text = "double value" ->
             <<"d", "o", "u", "b", "l", "e", " ", "v", "a", "l", "u", "e">>

text_of(cs) == CHOOSE text \in Instructions \cup {"/undo", "out.csv"} : chars(text) = cs

\* str.lower()
lower_char(c) ==
    CASE c = "A" -> "a" [] c = "D" -> "d" [] c = "E" -> "e" [] c = "N" -> "n"
      [] c = "O" -> "o" [] c = "P" -> "p" [] c = "R" -> "r" [] c = "T" -> "t"
      [] c = "U" -> "u" [] c = "X" -> "x" [] OTHER -> c

lower(cs) == [i \in 1..Len(cs) |-> lower_char(cs[i])]

\* str.startswith(prefix)
startswith(cs, prefix) ==
    Len(cs) >= Len(prefix) /\ SubSeq(cs, 1, Len(prefix)) = prefix

\* str.split(): the maximal runs of non-blank characters, in order.
RECURSIVE split_acc(_, _, _)
split_acc(cs, cur, acc) ==
    IF cs = <<>> THEN (IF cur = <<>> THEN acc ELSE Append(acc, cur))
    ELSE IF Head(cs) = " "
    THEN split_acc(Tail(cs), <<>>, IF cur = <<>> THEN acc ELSE Append(acc, cur))
    ELSE split_acc(Tail(cs), Append(cur, Head(cs)), acc)

split(cs) == split_acc(cs, <<>>, <<>>)

\* chat_endpoint's command parsing (lines 346-356): the node the text is
\* routed to and the name that replaces export_filename (<<>>: none).
parse_command(cs) ==
    IF lower(cs) \in {chars("undo"), chars("/undo")}
    THEN [next_node |-> "undo", name |-> <<>>]
    ELSE IF startswith(lower(cs), chars("/export"))
    THEN [next_node |-> "export",
          name |-> IF Len(split(cs)) > 1 THEN split(cs)[2] ELSE <<>>]
    ELSE [next_node |-> "execute", name |-> <<>>]

Classify(text) == parse_command(chars(text)).next_node

\* chat_endpoint up to the loop: restore the state, classify, reset the
\* loop's locals.  retry_count, error and last_tool are taken over as stored.
TurnBegin ==
    /\ phase = "idle"
    /\ turns + repls < MaxTurns
    /\ \E text \in Instructions :
          /\ next_node' = Classify(text)
          /\ user_message' = CASE Classify(text) = "undo" -> "Undo requested"
                               [] Classify(text) = "export" -> user_message
                               [] OTHER -> text
          /\ export_filename' = IF parse_command(chars(text)).name /= <<>>
                                THEN text_of(parse_command(chars(text)).name)
                                ELSE export_filename
    /\ phase' = "running"
    /\ safety' = 0 /\ tool' = "None"
    /\ turns' = turns + 1
    /\ attempts' = 0 /\ rc0' = retry_count
    /\ lastStep' = "begin"
    /\ call' = NoCall /\ result' = NoResult
    /\ repl_reply' = NoReply
    /\ UNCHANGED <<pure, conc, repls, sessions_meta, undo_log, llm_cache, other_meta, sess, impl, llm_ok, store, nextKey, raw_id,
                   work_id, history, error, retry_count, last_tool, snap, sup, worker,
                   return_dict>>

\* The loop condition of run_cycle / chat_endpoint for one node.
AtNode(node) == phase = "running" /\ next_node = node /\ safety < SafetyCeiling

\* The loop returns: at human_input, at the ceiling, or at a node it does
\* not handle (break); the caller persists the state.
LoopContinues ==
    /\ next_node /= "human_input"
    /\ safety < SafetyCeiling
    /\ next_node \in {"execute", "eda", "undo", "export"}

TurnEnd ==
    /\ phase = "running"
    /\ ~LoopContinues
    /\ phase' = "idle"
    /\ UNCHANGED <<pure, conc, repls, sessions_meta, repl_reply, undo_log, llm_cache, other_meta, sess, impl, llm_ok, store, nextKey, agentVars, safety, tool, turns,
                   attempts, rc0, lastStep, snap, execVars>>

\* ------------------------------------------------------------------ nodes
\* Variant: eda forwards to itself.
EdaTarget_stuck == "eda"

\* eda / eda_node: forwards to human_input.
EdaTarget == "human_input"

Eda ==
    /\ AtNode("eda")
    /\ next_node' = EdaTarget
    /\ safety' = safety + 1
    /\ lastStep' = "eda"
    /\ UNCHANGED <<pure, conc, repls, sessions_meta, repl_reply, undo_log, llm_cache, other_meta, sess, impl, llm_ok, store, nextKey, raw_id, work_id, history, user_message,
                   error, export_filename, retry_count, last_tool, phase, tool, turns,
                   attempts, rc0, snap, execVars>>

\* AgentService.undo / undo_node.
UndoNode ==
    /\ AtNode("undo")
    /\ LET u == undo(work_id, history) IN
          /\ work_id' = u.work_id
          /\ history' = u.history
          /\ user_message' = u.msg
          /\ snap' = IF history = <<>> THEN [NoSnap EXCEPT !.op = "undo_empty"]
                     ELSE IF snap.op = "code_fail" /\ snap.pushed
                          THEN [snap EXCEPT !.op = "push_pop"]
                     ELSE IF snap.op = "code_ok"
                          THEN [snap EXCEPT !.op = "commit_undo"]
                     ELSE [NoSnap EXCEPT !.op = "undo"]
    /\ next_node' = "eda"
    /\ safety' = safety + 1
    /\ lastStep' = "undo"
    /\ UNCHANGED <<pure, conc, repls, sessions_meta, repl_reply, undo_log, llm_cache, other_meta, sess, impl, llm_ok, store, nextKey, raw_id, error, export_filename,
                   retry_count, last_tool, phase, tool, turns, attempts, rc0, execVars>>

\* Variant: a failed write is counted and tried again.
ExportNode_retry ==
    /\ AtNode("export")
    /\ \E io_ok \in BOOLEAN :
          IF get_df_ok(store, work_id) /\ io_ok
          THEN /\ user_message' = "Saved" /\ next_node' = "human_input"
               /\ UNCHANGED retry_count
          ELSE /\ user_message' = "Export failed"
               /\ retry_count' = retry_count + 1
               /\ next_node' = IF retry_count + 1 < MAX_RETRIES THEN "export"
                               ELSE "human_input"
    /\ safety' = safety + 1
    /\ lastStep' = "export"
    /\ UNCHANGED <<pure, conc, repls, sessions_meta, repl_reply, undo_log, llm_cache, other_meta, sess, impl, llm_ok,
                   store, nextKey, raw_id, work_id, history, error, export_filename,
                   last_tool, phase, tool, turns, attempts, rc0, snap, execVars>>

\* AgentService.export / export_node: the write may fail; never retried.
ExportNode ==
    /\ AtNode("export")
    /\ \E io_ok \in BOOLEAN :
          user_message' = IF get_df_ok(store, work_id) /\ io_ok
                          THEN "Saved" ELSE "Export failed"
    /\ next_node' = "human_input"
    /\ safety' = safety + 1
    /\ lastStep' = "export"
    /\ UNCHANGED <<pure, conc, repls, sessions_meta, repl_reply, undo_log, llm_cache, other_meta, sess, impl, llm_ok, store, nextKey, raw_id, work_id, history, error,
                   export_filename, retry_count, last_tool, phase, tool, turns,
                   attempts, rc0, snap, execVars>>

\* ------------------------------------------------------- code validation
\* The rejection reasons of validate_code's denylist, in its order.
dangerous_patterns ==
    << "OS module access not allowed", "System module access not allowed",
       "Subprocess module not allowed", "Network access not allowed",
       "Dynamic imports not allowed", "eval() not allowed", "exec() not allowed",
       "compile() not allowed", "File operations not allowed",
       "File operations not allowed", "User input not allowed",
       "User input not allowed" >>

\* A submitted code text is described by its length, the set of denylist
\* entries (by index) occurring in its lower-cased text, what running it
\* does (behav), the table it leaves in df and whether it prints.  The
\* failing codes sampled: raise, baddf and loop print before they fail,
\* nodf and crash print nothing.
Behaviours == {"ok", "raise", "nodf", "baddf", "loop", "crash"}

ValidCodes ==
    { [len |-> 20, pats |-> {}, behav |-> "ok", tbl |-> t, out |-> o] :
        t \in Tables, o \in {"", "txt"} }
    \cup { [len |-> 20, pats |-> {}, behav |-> b, tbl |-> NoTable,
             out |-> IF b \in {"raise", "baddf", "loop"} THEN "txt" ELSE ""] :
        b \in Behaviours \ {"ok"} }

\* Rejected codes: were they run, they would print and leave a new table.
InvalidCodes ==
    { [len |-> c[1], pats |-> c[2], behav |-> "ok", tbl |-> NumTables, out |-> "txt"] :
        c \in { <<20, {1}>>, <<20, {1, 9}>>, <<max_code_length, {5, 6}>>,
                 <<max_code_length + 1, {1}>>, <<max_code_length + 1, {}>> } }

Codes == ValidCodes \cup InvalidCodes

\* Variant: nothing is rejected.
validate_code_allow(code) == [ok |-> TRUE, msg |-> ""]

\* Variant: the last denylist entry that occurs supplies the reason.
validate_code_last(code) ==
    IF code.len > max_code_length
    THEN [ok |-> FALSE, msg |-> "Code too long"]
    ELSE IF code.pats /= {}
    THEN [ok |-> FALSE,
          msg |-> dangerous_patterns[CHOOSE i \in code.pats : \A j \in code.pats : i >= j]]
    ELSE [ok |-> TRUE, msg |-> ""]

\* validate_code: length first, then the first denylist entry that occurs.
validate_code(code) ==
    IF code.len > max_code_length
    THEN [ok |-> FALSE, msg |-> "Code too long"]
    ELSE IF code.pats /= {}
    THEN [ok |-> FALSE,
          msg |-> dangerous_patterns[CHOOSE i \in code.pats : \A j \in code.pats : i <= j]]
    ELSE [ok |-> TRUE, msg |-> ""]

\* ------------------------------------------------------------ EXECUTE node
\* Variant: the comparison admits one more attempt.
RetryNext_le(rc) == IF rc <= MAX_RETRIES THEN "execute" ELSE "human_input"

\* next_node after a failed attempt that left the counter at rc.
RetryNext(rc) == IF rc < MAX_RETRIES THEN "execute" ELSE "human_input"

\* build_prompt: the parts of the prompt that depend on the outcome of
\* earlier attempts: the error text ("None" when the error line is left
\* out), the retry line (0 when left out) and the user request.
build_prompt(err, rc, msg) ==
    [err |-> err, retry |-> IF rc /= 0 THEN rc + 1 ELSE 0, request |-> msg]

\* chat_endpoint: after execute_node, a recorded descriptor becomes the
\* turn's tool.
ToolAfter(lt) == IF impl = "api" /\ lt /= "None" THEN lt ELSE tool

\* Completion texts the model may return: a JSON object with the named
\* action, text without any brace, and text whose first {...} segment is
\* not JSON.
Completions == {"{answer}", "{clarify}", "{visualize}", "{code}", "{summarize}",
                "plain text", "text {not json}"}

\* re.search for a fenced or bare {...} segment finds one.
has_object(raw) == raw /= "plain text"

\* json.loads on the segment returns (FALSE: it raises JSONDecodeError).
json_loads_ok(raw) == raw /= "text {not json}"

action_of(raw) ==
    CASE raw = "{answer}" -> "answer"
      [] raw = "{clarify}" -> "clarify"
      [] raw = "{visualize}" -> "visualize"
      [] raw = "{code}" -> "code"
      [] OTHER -> "summarize"

\* Lines 175-179: the object found in the text is loaded, and text without
\* an object is wrapped as an answer; raised = json.loads raised inside the
\* try block of the completion call.
parse_completion(raw) ==
    IF ~has_object(raw)
    THEN [raised |-> FALSE, action |-> "answer", content |-> raw]
    ELSE IF ~json_loads_ok(raw)
    THEN [raised |-> TRUE, action |-> "none", content |-> ""]
    ELSE [raised |-> FALSE, action |-> action_of(raw), content |-> action_of(raw)]

\* The completions that dispatch to the given branch of the node.
Dispatched(branch) ==
    { raw \in Completions :
        /\ ~parse_completion(raw).raised
        /\ branch = (IF parse_completion(raw).action \in
                          {"answer", "clarify", "visualize", "code"}
                     THEN parse_completion(raw).action ELSE "unknown") }

\* llm is None: the node reports it and returns to human_input.
ExecuteNoLLM ==
    /\ AtNode("execute")
    /\ ~llm_ok
    /\ error' = "LLM not initialized"
    /\ user_message' = "LLM not initialized"
    /\ next_node' = "human_input"
    /\ safety' = safety + 1 /\ attempts' = attempts + 1
    /\ tool' = ToolAfter(last_tool)
    /\ lastStep' = "no_llm"
    /\ UNCHANGED <<pure, conc, repls, sessions_meta, repl_reply, undo_log, llm_cache, other_meta, sess, impl, llm_ok, store, nextKey, raw_id, work_id, history,
                   export_filename, retry_count, last_tool, phase, turns, rc0,
                   snap, execVars>>

\* The completion call raises (transport, timeout), or json.loads raises
\* on the text it returned: the except branch of lines 183-194.
ExecuteLLMFail ==
    /\ AtNode("execute")
    /\ llm_ok
    /\ \E cause \in {"transport"} \cup {raw \in Completions : parse_completion(raw).raised} :
          /\ lastStep' = IF cause = "transport" THEN "llm_fail" ELSE "parse_fail"
          /\ error' = IF cause = "transport" THEN "LLM Error: transport"
                      ELSE "LLM Error: JSONDecodeError"
    /\ IF retry_count + 1 < MAX_RETRIES
       THEN /\ retry_count' = retry_count + 1
            /\ next_node' = "execute"
            /\ user_message' = "Connecting to AI"
       ELSE /\ retry_count' = 0
            /\ next_node' = "human_input"
            /\ user_message' = "AI Connection Failed"
    /\ safety' = safety + 1 /\ attempts' = attempts + 1
    /\ tool' = ToolAfter(last_tool)
    /\ UNCHANGED <<pure, conc, repls, sessions_meta, repl_reply, undo_log, llm_cache, other_meta, sess, impl, llm_ok, store, nextKey, raw_id, work_id, history,
                   export_filename, last_tool, phase, turns, rc0, snap, execVars>>

\* action "answer" or "clarify": the content becomes the message.
ExecuteAnswer ==
    /\ AtNode("execute")
    /\ llm_ok
    /\ \E raw \in Dispatched("answer") \cup Dispatched("clarify") :
          /\ user_message' = parse_completion(raw).content
          /\ lastStep' = IF has_object(raw) THEN parse_completion(raw).action
                         ELSE "unparsed"
    /\ error' = "None"
    /\ retry_count' = 0
    /\ next_node' = "human_input"
    /\ safety' = safety + 1 /\ attempts' = attempts + 1
    /\ tool' = ToolAfter(last_tool)
    /\ UNCHANGED <<pure, conc, repls, sessions_meta, repl_reply, undo_log, llm_cache, other_meta, sess, impl, llm_ok, store, nextKey, raw_id, work_id, history,
                   export_filename, last_tool, phase, turns, rc0, snap, execVars>>

\* action "visualize": record the descriptor, -> eda.
ExecuteVisualize ==
    /\ AtNode("execute")
    /\ llm_ok
    /\ Dispatched("visualize") /= {}
    /\ last_tool' = "generateVisualization"
    /\ user_message' = "Generating visualization"
    /\ next_node' = "eda"
    /\ safety' = safety + 1 /\ attempts' = attempts + 1
    /\ tool' = ToolAfter("generateVisualization")
    /\ lastStep' = "visualize"
    /\ UNCHANGED <<pure, conc, repls, sessions_meta, repl_reply, undo_log, llm_cache, other_meta, sess, impl, llm_ok, store, nextKey, raw_id, work_id, history, error,
                   export_filename, retry_count, phase, turns, rc0, snap, execVars>>

\* Variant: the except branch sends the turn back without counting.
ExceptBranch_uncounted(err) ==
    /\ error' = err
    /\ retry_count' = retry_count
    /\ next_node' = RetryNext(retry_count)
    /\ UNCHANGED user_message

\* The node's except branch: an unknown action (ValueError) or a fault
\* raised inside the dispatch.  backend.execute_node also sets the message
\* when the retries are used up.
ExceptBranch(err) ==
    /\ error' = err
    /\ retry_count' = retry_count + 1
    /\ next_node' = RetryNext(retry_count + 1)
    /\ user_message' = IF impl = "api" /\ ~(retry_count + 1 < MAX_RETRIES)
                       THEN "Error (Failed after retries)" ELSE user_message

ExecuteUnknown ==
    /\ AtNode("execute")
    /\ llm_ok
    /\ Dispatched("unknown") /= {}
    /\ ExceptBranch("Unknown action")
    /\ safety' = safety + 1 /\ attempts' = attempts + 1
    /\ tool' = ToolAfter(last_tool)
    /\ lastStep' = "unknown"
    /\ UNCHANGED <<pure, conc, repls, sessions_meta, repl_reply, undo_log, llm_cache, other_meta, sess, impl, llm_ok, store, nextKey, raw_id, work_id, history,
                   export_filename, last_tool, phase, turns, rc0, snap, execVars>>

\* ------------------------------------------------------- sandboxed executor
\* Variant: every failed run is reported with the default error text.
FaultOf_generic(behav) == "Unknown execution error"

\* The error the worker (or the in-process executor) reports for a run.
FaultOf(behav) ==
    CASE behav = "raise" -> "RuntimeFault: message"
      [] behav = "nodf" -> "Code must define 'df' variable"
      [] behav = "baddf" -> "Variable 'df' must be a DataFrame"
      [] OTHER -> "None"

\* Variant: the code is run without being screened.
exec_code_inprocess_unscreened(code, df) ==
    IF code.behav = "ok"
    THEN [df |-> code.tbl, err |-> "None", out |-> code.out]
    ELSE IF code.behav = "loop"
    THEN [df |-> df, err |-> "Code execution timed out", out |-> code.out]
    ELSE [df |-> df, err |-> FaultOf(code.behav), out |-> code.out]

\* backend.exec_code: validation, then the run in-process under the alarm.
exec_code_inprocess(code, df) ==
    IF ~validate_code(code).ok
    THEN [df |-> df, err |-> validate_code(code).msg, out |-> ""]
    ELSE IF code.behav = "ok"
    THEN [df |-> code.tbl, err |-> "None", out |-> code.out]
    ELSE IF code.behav = "loop"
    THEN [df |-> df, err |-> "Code execution timed out", out |-> code.out]
    ELSE [df |-> df, err |-> FaultOf(code.behav), out |-> code.out]

AliveStates == {"exec", "w_df", "w_stdout", "w_success", "w_error", "w_errout",
                "exiting", "terminating"}

\* Variant: the timeout branch does not terminate the worker.
terminate_noop(w) == w

\* Variant: the supervisor does not wait for the worker to exit.
join_done_skip(w) == TRUE

\* Variant: the supervisor takes the worker for exited at any time.
is_alive_never(w) == FALSE

\* Process.is_alive, Process.terminate (SIGTERM is sent, the process dies
\* asynchronously) and the condition under which Process.join() returns.
is_alive(w) == w \in AliveStates

terminate(w) == IF is_alive(w) THEN "terminating" ELSE w

join_done(w) == ~is_alive(w)

\* Variant: a failure returns no captured output.
read_result_quiet(rd, df, mgr_ok) ==
    IF ~mgr_ok THEN [df |-> df, err |-> "Execution wrapper error", out |-> ""]
    ELSE IF ~rd.success
    THEN [df |-> df,
          err |-> IF rd.error = "unset" THEN "Unknown execution error" ELSE rd.error,
          out |-> ""]
    ELSE [df |-> rd.df, err |-> "None", out |-> rd.stdout]

\* Variant: a failure returns whatever table the channel holds.
read_result_raw(rd, df, mgr_ok) ==
    IF ~mgr_ok THEN [df |-> df, err |-> "Execution wrapper error", out |-> ""]
    ELSE IF ~rd.success
    THEN [df |-> rd.df,
          err |-> IF rd.error = "unset" THEN "Unknown execution error" ELSE rd.error,
          out |-> IF rd.stdout = "unset" THEN "" ELSE rd.stdout]
    ELSE [df |-> rd.df, err |-> "None", out |-> rd.stdout]

\* exec_code after the worker has exited: what the supervisor reads from
\* return_dict (lines 152-157); mgr_ok = FALSE when the manager proxy raises.
read_result(rd, df, mgr_ok) ==
    IF ~mgr_ok THEN [df |-> df, err |-> "Execution wrapper error", out |-> ""]
    ELSE IF ~rd.success
    THEN [df |-> df,
          err |-> IF rd.error = "unset" THEN "Unknown execution error" ELSE rd.error,
          out |-> IF rd.stdout = "unset" THEN "" ELSE rd.stdout]
    ELSE [df |-> rd.df, err |-> "None", out |-> rd.stdout]

\* p.start(): the worker begins to run, or starting it raises.
SupStart ==
    /\ phase = "exec" /\ sup = "created"
    /\ \/ /\ worker' = "exec" /\ sup' = "join"
          /\ UNCHANGED result
       \/ /\ result' = [df |-> call.df, err |-> "Execution wrapper error", out |-> ""]
          /\ sup' = "returned"
          /\ UNCHANGED worker
    /\ UNCHANGED <<pure, conc, repls, sessions_meta, repl_reply, undo_log, llm_cache, other_meta, sess, impl, llm_ok, store, nextKey, agentVars, loopVars, lastStep, snap,
                   call, return_dict>>

\* _execute_script: exec(code) ends, by the code's behaviour; code that
\* loops never leaves "exec"; a hard crash kills the process unpublished.
WorkerRun ==
    /\ worker = "exec"
    /\ call.code.behav /= "loop"
    /\ worker' = CASE call.code.behav = "ok" -> "w_df"
                   [] call.code.behav = "crash" -> "dead"
                   [] OTHER -> "w_error"
    /\ UNCHANGED <<pure, conc, repls, sessions_meta, repl_reply, undo_log, llm_cache, other_meta, sess, impl, llm_ok, store, nextKey, agentVars, loopVars, lastStep, snap,
                   call, sup, return_dict, result>>

\* _execute_script: the writes to return_dict, one at a time, then exit.
WorkerPublish ==
    /\ \/ /\ worker = "w_df"
          /\ return_dict' = [return_dict EXCEPT !.df = call.code.tbl]
          /\ worker' = "w_stdout"
       \/ /\ worker = "w_stdout"
          /\ return_dict' = [return_dict EXCEPT !.stdout = call.code.out]
          /\ worker' = "w_success"
       \/ /\ worker = "w_success"
          /\ return_dict' = [return_dict EXCEPT !.success = TRUE]
          /\ worker' = "exiting"
       \/ /\ worker = "w_error"
          /\ return_dict' = [return_dict EXCEPT !.error = FaultOf(call.code.behav)]
          /\ worker' = "w_errout"
       \/ /\ worker = "w_errout"
          /\ return_dict' = [return_dict EXCEPT !.stdout = call.code.out]
          /\ worker' = "exiting"
    /\ UNCHANGED <<pure, conc, repls, sessions_meta, repl_reply, undo_log, llm_cache, other_meta, sess, impl, llm_ok, store, nextKey, agentVars, loopVars, lastStep, snap,
                   call, sup, result>>

\* The worker process ends: after its function returned, or killed by the
\* signal terminate() sent.
WorkerExit ==
    /\ worker \in {"exiting", "terminating"}
    /\ worker' = "dead"
    /\ UNCHANGED <<pure, conc, repls, sessions_meta, repl_reply, undo_log, llm_cache, other_meta, sess, impl, llm_ok, store, nextKey, agentVars, loopVars, lastStep, snap,
                   call, sup, return_dict, result>>

\* p.join(timeout) returns because the budget elapsed.
JoinTimeout ==
    /\ phase = "exec" /\ sup = "join"
    /\ is_alive(worker)
    /\ sup' = "joined"
    /\ UNCHANGED <<pure, conc, repls, sessions_meta, repl_reply, undo_log, llm_cache, other_meta, sess, impl, llm_ok, store, nextKey, agentVars, loopVars, lastStep, snap,
                   call, worker, return_dict, result>>

\* p.join(timeout) returns because the worker exited.
JoinExit ==
    /\ phase = "exec" /\ sup = "join"
    /\ join_done(worker)
    /\ sup' = "joined"
    /\ UNCHANGED <<pure, conc, repls, sessions_meta, repl_reply, undo_log, llm_cache, other_meta, sess, impl, llm_ok, store, nextKey, agentVars, loopVars, lastStep, snap,
                   call, worker, return_dict, result>>

\* if p.is_alive(): terminate and join; else read the result and return.
SupCheckAlive ==
    /\ phase = "exec" /\ sup = "joined"
    /\ IF is_alive(worker)
       THEN /\ worker' = terminate(worker)
            /\ sup' = "join2"
            /\ UNCHANGED result
       ELSE /\ \E mgr_ok \in BOOLEAN :
                 result' = read_result(return_dict, call.df, mgr_ok)
            /\ sup' = "returned"
            /\ UNCHANGED worker
    /\ UNCHANGED <<pure, conc, repls, sessions_meta, repl_reply, undo_log, llm_cache, other_meta, sess, impl, llm_ok, store, nextKey, agentVars, loopVars, lastStep, snap,
                   call, return_dict>>

\* p.join() after terminate(), then the timeout error is returned.
SupJoinTerminated ==
    /\ phase = "exec" /\ sup = "join2"
    /\ join_done(worker)
    /\ result' = [df |-> call.df, err |-> "Execution timed out", out |-> ""]
    /\ sup' = "returned"
    /\ UNCHANGED <<pure, conc, repls, sessions_meta, repl_reply, undo_log, llm_cache, other_meta, sess, impl, llm_ok, store, nextKey, agentVars, loopVars, lastStep, snap,
                   call, worker, return_dict>>

\* ------------------------------------------------- EXECUTE node: action code
\* Variant: the fresh key is taken as working handle whatever the outcome.
work_after_commit(res, wid, nk) == nk

\* The working handle after exec_code returned res (nk is the fresh key
\* write_df hands out for the new table).
work_after(res, wid, nk) == IF res.err /= "None" THEN wid ELSE nk

\* AgentService.execute lines 233-247 / execute_node lines 566-591: the
\* error branch, or the commit of the new table.
CodeDone(res, st, nk, pre) ==
    /\ work_id' = work_after(res, work_id, nk)
    /\ IF res.err /= "None"
       THEN /\ error' = res.err
            /\ retry_count' = retry_count + 1
            /\ next_node' = RetryNext(retry_count + 1)
            /\ store' = st /\ nextKey' = nk
            /\ UNCHANGED user_message
            /\ lastStep' = "code_fail"
            /\ snap' = [pre EXCEPT !.op = "code_fail"]
       ELSE /\ store' = write_df(st, nk, res.df) /\ nextKey' = nk + 1
            /\ user_message' = "Code executed successfully"
            /\ error' = "None"
            /\ retry_count' = 0
            /\ next_node' = "eda"
            /\ lastStep' = "code_ok"
            /\ snap' = [pre EXCEPT !.op = "code_ok", !.new = res.df]

\* action "code": record the descriptor, push the undo snapshot, read the
\* working table and call exec_code.  With backend.exec_code the call runs
\* in-process and the node completes here; with execution_service.exec_code
\* a rejected code completes here and a valid one starts the worker.
ExecuteCode ==
    /\ AtNode("execute")
    /\ llm_ok
    /\ Dispatched("code") /= {}
    /\ nextKey + 1 <= MaxKeys
    /\ \E code \in Codes :
          /\ impl = "api" => code.behav /= "crash"
          /\ LET st1 == push_undo_store(store, work_id, nextKey)
                 nk1 == IF push_undo_applies(store, work_id) THEN nextKey + 1 ELSE nextKey
                 pre == [op |-> "code_run", work |-> work_id, hist |-> history,
                         tbl |-> IF get_df_ok(store, work_id) THEN store[work_id] ELSE NoTable,
                         pushed |-> push_undo_applies(store, work_id), new |-> NoTable]
             IN /\ history' = push_undo_history(store, work_id, history, nextKey, "Code")
                /\ IF ~get_df_ok(st1, work_id)
                   THEN /\ ExceptBranch("FileNotFoundError")
                        /\ store' = st1 /\ nextKey' = nk1
                        /\ lastStep' = "code_fail"
                        /\ snap' = [pre EXCEPT !.op = "code_fail"]
                        /\ safety' = safety + 1
                        /\ tool' = ToolAfter("runPythonAnalysis")
                        /\ UNCHANGED <<work_id, phase, execVars>>
                   ELSE IF impl = "api" \/ ~validate_code(code).ok
                   THEN /\ CodeDone(IF impl = "api"
                                    THEN exec_code_inprocess(code, st1[work_id])
                                    ELSE [df |-> st1[work_id], err |-> validate_code(code).msg,
                                          out |-> ""],
                                    st1, nk1, pre)
                        /\ result' = IF impl = "api"
                                     THEN exec_code_inprocess(code, st1[work_id])
                                     ELSE [df |-> st1[work_id], err |-> validate_code(code).msg,
                                           out |-> ""]
                        /\ call' = [code |-> code, df |-> st1[work_id]]
                        /\ sup' = "none" /\ worker' = "none" /\ return_dict' = EmptyDict
                        /\ safety' = safety + 1
                        /\ tool' = ToolAfter("runPythonAnalysis")
                        /\ UNCHANGED phase
                   ELSE /\ call' = [code |-> code, df |-> st1[work_id]]
                        /\ sup' = "created" /\ worker' = "none"
                        /\ return_dict' = EmptyDict /\ result' = NoResult
                        /\ phase' = "exec"
                        /\ store' = st1 /\ nextKey' = nk1
                        /\ lastStep' = "code_run"
                        /\ snap' = pre
                        /\ UNCHANGED <<work_id, error, retry_count, next_node,
                                       user_message, safety, tool>>
    /\ last_tool' = "runPythonAnalysis"
    /\ attempts' = attempts + 1
    /\ UNCHANGED <<pure, conc, repls, sessions_meta, repl_reply, undo_log, llm_cache, other_meta, sess, impl, llm_ok, raw_id, export_filename, turns, rc0>>

\* exec_code returned to AgentService.execute: error branch or commit.
ExecuteCodeReturn ==
    /\ phase = "exec" /\ sup = "returned"
    /\ CodeDone(result, store, nextKey, snap)
    /\ phase' = "running"
    /\ sup' = "none" /\ worker' = "none" /\ return_dict' = EmptyDict
    /\ safety' = safety + 1
    /\ tool' = ToolAfter(last_tool)
    /\ UNCHANGED <<pure, conc, repls, sessions_meta, repl_reply, undo_log, llm_cache, other_meta, sess, impl, llm_ok, raw_id, history, export_filename, last_tool, turns,
                   attempts, rc0, call, result>>

\* -------------------------------------------------------------- response
\* chat_endpoint lines 379-381: the descriptors the response carries.
functionCalls_both(t) == <<t, last_tool>>

functionCalls(t) == IF t /= "None" THEN <<t>> ELSE <<>>

\* The response of the turn that has just returned.
Response == [text |-> user_message, functionCalls |-> functionCalls(tool)]

\* ------------------------------------------------------------------ REPL
\* The scripts a REPL request may carry: the code texts of the EXECUTE node,
\* an empty script, and a script whose only denylist entry is one (input)
\* that the request validator does not list.
ReplScripts ==
    { c \in Codes : c.behav /= "crash" }
    \cup { [len |-> 0, pats |-> {}, behav |-> "ok", tbl |-> NumTables, out |-> "txt"],
           [len |-> 20, pats |-> {11}, behav |-> "ok", tbl |-> NumTables, out |-> "txt"] }

\* ReplExecuteRequest: the field's length bounds, then the validator's own
\* denylist, which is the first ten entries of validate_code's.
validate_script(script) ==
    IF script.len < 1 THEN "String should have at least 1 character"
    ELSE IF script.len > 10000 THEN "String should have at most 10000 characters"
    ELSE IF script.pats \cap (1..10) /= {} THEN "Script contains forbidden pattern"
    ELSE "None"

\* repl_execute: validate the request, exec_code on the working table; only
\* a successful run pushes the undo snapshot, commits the new table and
\* records its handle in sessions_meta.  An invalid request, a missing
\* state or working handle (HTTP 400) and a failed read or run are answered
\* with an error and change nothing.
Repl ==
    /\ phase = "idle" /\ impl = "api"
    /\ turns + repls < MaxTurns
    /\ nextKey + 1 <= MaxKeys
    /\ \E script \in ReplScripts :
          LET readable == work_id /= NoKey /\ get_df_ok(store, work_id)
              res == IF validate_script(script) /= "None"
                     THEN [df |-> NoTable, err |-> validate_script(script), out |-> ""]
                     ELSE IF readable THEN exec_code_inprocess(script, store[work_id])
                     ELSE [df |-> NoTable, err |-> "No active session or data", out |-> ""]
          IN IF res.err /= "None"
             THEN /\ repl_reply' = [pats |-> script.pats, type |-> "error"]
                  /\ UNCHANGED <<store, nextKey, work_id, history, snap, lastStep,
                                 sessions_meta>>
             ELSE /\ history' = push_undo_history(store, work_id, history, nextKey, "REPL")
                  /\ store' = write_df(push_undo_store(store, work_id, nextKey),
                                       nextKey + 1, res.df)
                  /\ work_id' = nextKey + 1
                  /\ sessions_meta' = nextKey + 1
                  /\ nextKey' = nextKey + 2
                  /\ lastStep' = "repl_ok"
                  /\ snap' = [NoSnap EXCEPT !.op = "repl_ok"]
                  /\ repl_reply' = [pats |-> script.pats, type |-> "repl"]
    /\ repls' = repls + 1
    /\ UNCHANGED <<pure, conc, undo_log, llm_cache, other_meta, sess, impl, llm_ok, raw_id, next_node,
                   user_message, error,
                   export_filename, retry_count, last_tool, loopVars, execVars>>

\* ------------------------------------------------------------ diff engine
\* A table handed to compare_dataframes: its row count, its column labels
\* in order, its row labels in order and its cells by row; NaN is the
\* missing value.  The row labels are those of a fresh table (0, 1, ...)
\* or, after reordering code such as sort_values, the same labels in
\* another order.  A table above the row ceiling carries no cells and no
\* row labels: they are never read.
NaN == -1
CellValues == {NaN, 1, 2}
ColumnLists == {<<>>, <<"a">>, <<"b">>, <<"a", "b">>, <<"b", "a">>}
BigLen == DiffRowCeiling + 1

DiffShapes ==
    { sh \in (0..MaxCells) \X ColumnLists : sh[1] * Len(sh[2]) <= MaxCells }

RowLabels(n) == { [i \in 1..n |-> i - 1], [i \in 1..n |-> n - i] }

DiffTables ==
    UNION { { [len |-> sh[1], columns |-> sh[2], index |-> ix, rows |-> r] :
                ix \in RowLabels(sh[1]),
                r \in [1..sh[1] -> [1..Len(sh[2]) -> CellValues]] } : sh \in DiffShapes }
    \cup { [len |-> BigLen, columns |-> cl, index |-> <<>>, rows |-> <<>>] :
             cl \in ColumnLists }

shape(df) == <<df.len, Len(df.columns)>>
column_set(df) == { df.columns[i] : i \in 1..Len(df.columns) }
isna(v) == v = NaN

\* df_old != df_new is defined for identically labelled tables only; for
\* others pandas raises (the column labels are equal where it is evaluated).
indexed_same(df_old, df_new) == df_old.index = df_new.index

\* Variant: two missing values count as a change.
ne_strict(df_old, df_new) ==
    { rc \in (1..df_old.len) \X (1..Len(df_old.columns)) :
        df_old.rows[rc[1]][rc[2]] /= df_new.rows[rc[1]][rc[2]]
        \/ (isna(df_old.rows[rc[1]][rc[2]]) /\ isna(df_new.rows[rc[1]][rc[2]])) }

\* (df_old != df_new) & ~(df_old.isna() & df_new.isna()): the cells that
\* count as changed (NaN != NaN holds in pandas and is masked out).
ne(df_old, df_new) ==
    { rc \in (1..df_old.len) \X (1..Len(df_old.columns)) :
        LET o == df_old.rows[rc[1]][rc[2]]
            n == df_new.rows[rc[1]][rc[2]]
        IN (o /= n \/ (isna(o) /\ isna(n))) /\ ~(isna(o) /\ isna(n)) }

\* np.where(ne): the changed cells in row-major order.
where(cells) ==
    CHOOSE q \in [1..Cardinality(cells) -> cells] :
        \A i, j \in 1..Cardinality(cells) :
            i < j => (q[i][1] < q[j][1] \/ (q[i][1] = q[j][1] /\ q[i][2] < q[j][2]))

\* The example statements: at most five, rows counted from 0.
examples(df_old, df_new, cells) ==
    [ i \in 1..(IF Cardinality(cells) < 5 THEN Cardinality(cells) ELSE 5) |->
        LET rc == where(cells)[i]
        IN <<rc[1] - 1, df_old.columns[rc[2]],
             df_old.rows[rc[1]][rc[2]], df_new.rows[rc[1]][rc[2]]>> ]

\* Variant: the shape statement is the only one a shape change produces.
shape_statements_bare(df_old, df_new) ==
    IF shape(df_old) /= shape(df_new)
    THEN << <<"Shape Change", shape(df_old), shape(df_new)>> >>
    ELSE <<>>

\* Lines 172-180: the shape statement and the signed deltas.
shape_statements(df_old, df_new) ==
    IF shape(df_old) /= shape(df_new)
    THEN << <<"Shape Change", shape(df_old), shape(df_new)>> >>
         \o (IF df_new.len - df_old.len /= 0
             THEN << <<"Rows", df_new.len - df_old.len>> >> ELSE <<>>)
         \o (IF Len(df_new.columns) - Len(df_old.columns) /= 0
             THEN << <<"Columns", Len(df_new.columns) - Len(df_old.columns)>> >>
             ELSE <<>>)
    ELSE <<>>

\* Lines 183-220: the cell comparison, or the column statements.
content_statements(df_old, df_new, changes) ==
    IF shape(df_old) = shape(df_new) /\ df_old.columns = df_new.columns
    THEN IF df_old.len > DiffRowCeiling
         THEN << <<"Data too large">> >>
         ELSE IF ~indexed_same(df_old, df_new)
         THEN << <<"Could not compute precise diff">> >>
         ELSE IF Cardinality(ne(df_old, df_new)) > 0
         THEN << <<"Values Changed", Cardinality(ne(df_old, df_new))>>,
                 <<"Sample Changes", examples(df_old, df_new, ne(df_old, df_new))>> >>
         ELSE IF changes = <<>> THEN << <<"No changes detected.">> >> ELSE <<>>
    ELSE (IF column_set(df_new) \ column_set(df_old) /= {}
          THEN << <<"New Columns", column_set(df_new) \ column_set(df_old)>> >>
          ELSE <<>>)
         \o (IF column_set(df_old) \ column_set(df_new) /= {}
             THEN << <<"Removed Columns", column_set(df_old) \ column_set(df_new)>> >>
             ELSE <<>>)

\* compare_dataframes: the list of statements it joins into its result.
compare_dataframes(df_old, df_new) ==
    IF df_old = NoDf
    THEN << <<"New dataframe created.">> >>
    ELSE shape_statements(df_old, df_new)
         \o content_statements(df_old, df_new, shape_statements(df_old, df_new))

\* --------------------------------------------------- pure functions applied
\* Code texts handed to validate_code: lengths around the limit, and the
\* denylist entries occurring in the lower-cased text ('raw_input(' contains
\* 'input(').
CodeTexts ==
    { [len |-> l, pats |-> ps, behav |-> "ok", tbl |-> 1, out |-> ""] :
        l \in {0, max_code_length - 1, max_code_length, max_code_length + 1},
        ps \in { q \in SUBSET (1..Len(dangerous_patterns)) :
                   Cardinality(q) <= MaxPatterns /\ (12 \in q => 11 \in q) } }

\* Texts handed to the command parsing: a command word or a near miss, with
\* up to MaxTail further characters and possibly a leading blank.
CommandWords ==
    { <<>>, chars("undo"), chars("/undo"), chars("/UNDO"), chars("/export"),
      <<"/", "E", "x", "p", "o", "r", "t">>, <<"e", "x", "p", "o", "r", "t">>,
      <<"/", "e", "x", "p", "o", "r">>, <<"u", "n", "d">> }

Tails == UNION { [1..n -> {" ", "a", "A"}] : n \in 0..MaxTail }

CommandTexts ==
    { lead \o w \o tl : lead \in {<<>>, <<" ">>}, w \in CommandWords, tl \in Tails }
    \ {<<>>}

\* The pairs of tables handed to compare_dataframes.  The row labels are
\* read by the cell comparison only, so reordered labels are drawn for the
\* pairs that reach it: equal shape and equal column list.
DiffPairs ==
    { p \in (DiffTables \cup {NoDf}) \X DiffTables :
        \/ /\ p[1].index = [i \in 1..Len(p[1].index) |-> i - 1]
           /\ p[2].index = [i \in 1..Len(p[2].index) |-> i - 1]
        \/ /\ shape(p[1]) = shape(p[2])
           /\ p[1].columns = p[2].columns }

PureInit ==
    /\ impl = "service" /\ llm_ok = TRUE
    /\ FreshState
    /\ conc = NoConc /\ undo_log = NoLog /\ llm_cache = NoCache /\ sess = NoSess
    /\ pure \in { [NoPure EXCEPT !.fn = "validate_code", !.code = c] : c \in CodeTexts }
               \cup { [NoPure EXCEPT !.fn = "compare_dataframes",
                                      !.df_old = p[1], !.df_new = p[2]] :
                        p \in DiffPairs }
               \cup { [NoPure EXCEPT !.fn = "parse_command", !.text = cs] :
                        cs \in CommandTexts }

ApplyValidate ==
    /\ pure.fn = "validate_code" /\ ~pure.done
    /\ pure' = [pure EXCEPT !.done = TRUE, !.out = validate_code(pure.code)]
    /\ UNCHANGED <<conc, repls, sessions_meta, repl_reply, undo_log, llm_cache, other_meta, sess, impl, llm_ok, store, nextKey, agentVars, loopVars,
                   lastStep, snap, execVars>>

ApplyCompare ==
    /\ pure.fn = "compare_dataframes" /\ ~pure.done
    /\ pure' = [pure EXCEPT !.done = TRUE,
                            !.out = compare_dataframes(pure.df_old, pure.df_new)]
    /\ UNCHANGED <<conc, repls, sessions_meta, repl_reply, undo_log, llm_cache, other_meta, sess, impl, llm_ok, store, nextKey, agentVars, loopVars,
                   lastStep, snap, execVars>>

ApplyParse ==
    /\ pure.fn = "parse_command" /\ ~pure.done
    /\ pure' = [pure EXCEPT !.done = TRUE, !.out = parse_command(pure.text)]
    /\ UNCHANGED <<conc, repls, sessions_meta, repl_reply, undo_log, llm_cache, other_meta, sess, impl, llm_ok, store, nextKey,
                   agentVars, loopVars, lastStep, snap, execVars>>

PureNext == ApplyValidate \/ ApplyCompare \/ ApplyParse

PureSpec == PureInit /\ [][PureNext]_vars

\* ------------------------------------------- turns in parallel on one state
\* Several turns run the code action of AgentService.execute / execute_node
\* (lines 230-239) on the same AgentState, one statement at a time.  The
\* core takes no lock; conc.serialised says whether the caller admits one
\* turn at a time.  conc.lost and conc.stale_top record, at a commit, that
\* the handle replaced is not the one this turn read, and that the top
\* snapshot is not the table the commit replaced.
ConcInit ==
    /\ impl = "service" /\ llm_ok = TRUE
    /\ FreshState
    /\ pure = NoPure /\ undo_log = NoLog /\ llm_cache = NoCache /\ sess = NoSess
    /\ \E b \in BOOLEAN : conc = [NoConc EXCEPT !.on = TRUE, !.serialised = b]

ConcFrame ==
    UNCHANGED <<pure, repls, sessions_meta, repl_reply, undo_log, llm_cache, other_meta, sess, impl, llm_ok, raw_id, next_node, user_message, error,
                export_filename, retry_count, last_tool, loopVars, lastStep, snap,
                execVars>>

\* A request for a turn is admitted.
ConcStart(t) ==
    /\ conc.on /\ phase = "idle" /\ work_id /= NoKey
    /\ conc.pc[t] = "idle"
    /\ conc.serialised => \A u \in ParallelTurns : conc.pc[u] \in {"idle", "done"}
    /\ conc' = [conc EXCEPT !.pc[t] = "push"]
    /\ UNCHANGED <<store, nextKey, work_id, history>>
    /\ ConcFrame

\* state.push_undo(...)
ConcPush(t) ==
    /\ conc.pc[t] = "push"
    /\ history' = push_undo_history(store, work_id, history, nextKey, "Code")
    /\ store' = push_undo_store(store, work_id, nextKey)
    /\ nextKey' = IF push_undo_applies(store, work_id) THEN nextKey + 1 ELSE nextKey
    /\ conc' = [conc EXCEPT !.pc[t] = "read"]
    /\ UNCHANGED work_id
    /\ ConcFrame

\* df = store.get_df(state.work_id)
ConcRead(t) ==
    /\ conc.pc[t] = "read"
    /\ get_df_ok(store, work_id)
    /\ conc' = [conc EXCEPT !.pc[t] = "exec", !.base[t] = work_id, !.df[t] = store[work_id]]
    /\ UNCHANGED <<store, nextKey, work_id, history>>
    /\ ConcFrame

\* new_df, err, stdout = exec_code(content, df): a new table, or an error.
ConcExec(t) ==
    /\ conc.pc[t] = "exec"
    /\ \/ \E tbl \in Tables :
             conc' = [conc EXCEPT !.pc[t] = "commit", !.new_df[t] = tbl]
       \/ conc' = [conc EXCEPT !.pc[t] = "done"]
    /\ UNCHANGED <<store, nextKey, work_id, history>>
    /\ ConcFrame

\* state.work_id = store.write_df(new_df)
ConcCommit(t) ==
    /\ conc.pc[t] = "commit"
    /\ store' = write_df(store, nextKey, conc.new_df[t])
    /\ work_id' = nextKey
    /\ nextKey' = nextKey + 1
    /\ conc' = [conc EXCEPT !.pc[t] = "done",
                            !.prev = store[work_id],
                            !.lost = conc.lost \/ work_id /= conc.base[t],
                            !.stale_top = conc.stale_top
                                \/ history = <<>>
                                \/ store[history[Len(history)].snapshot_key] /= store[work_id]]
    /\ UNCHANGED history
    /\ ConcFrame

ConcNext ==
    \/ Upload
    \/ \E t \in ParallelTurns :
          ConcStart(t) \/ ConcPush(t) \/ ConcRead(t) \/ ConcExec(t) \/ ConcCommit(t)

ConcSpec == ConcInit /\ [][ConcNext]_vars

\* ------------------------------------------- whole turns on the undo stack
\* A longer conversation followed on the store, the working handle and the
\* undo stack only: each step is one code attempt of AgentService.execute /
\* execute_node (lines 225-247: push_undo, get_df, exec_code, then the error
\* branch or the commit) or one undo turn, taken as a whole.  A code attempt
\* that succeeds leaves a table other than the working one.  undo_log.made
\* is T0..Tk of the successful attempts since the last undo, depth the
\* stack's length after the last attempt, undone the undo turns since (not
\* counted beyond the length of made), and failed says that an attempt
\* failed after the first of these successes.
LogInit ==
    /\ impl \in {"service", "api"} /\ llm_ok = TRUE
    /\ FreshState
    /\ pure = NoPure /\ conc = NoConc /\ llm_cache = NoCache /\ sess = NoSess
    /\ undo_log = [NoLog EXCEPT !.on = TRUE]

LogFrame ==
    UNCHANGED <<pure, conc, repls, sessions_meta, repl_reply, llm_cache, other_meta, sess, impl, llm_ok,
                raw_id, next_node, user_message, error, export_filename, retry_count,
                last_tool, loopVars, lastStep, snap, execVars>>

LogReady ==
    /\ undo_log.on /\ phase = "idle"
    /\ work_id /= NoKey /\ get_df_ok(store, work_id)

CodeAttemptOk ==
    /\ LogReady
    /\ nextKey + 1 <= MaxLogKeys
    /\ \E t \in Tables \ {store[work_id]} :
          LET res == [df |-> t, err |-> "None", out |-> ""]
              st1 == push_undo_store(store, work_id, nextKey)
          IN /\ history' = push_undo_history(store, work_id, history, nextKey, "Code")
             /\ store' = write_df(st1, nextKey + 1, res.df)
             /\ work_id' = work_after(res, work_id, nextKey + 1)
             /\ nextKey' = nextKey + 2
             /\ undo_log' = IF undo_log.made = <<>> \/ undo_log.undone > 0
                            THEN [on |-> TRUE, made |-> <<store[work_id], t>>,
                                  depth |-> Len(history'), undone |-> 0,
                                  failed |-> FALSE]
                            ELSE [undo_log EXCEPT !.made = Append(@, t),
                                                  !.depth = Len(history')]
    /\ LogFrame

CodeAttemptFail ==
    /\ LogReady
    /\ nextKey <= MaxLogKeys
    /\ LET res == [df |-> store[work_id], err |-> "RuntimeFault: message", out |-> ""]
       IN /\ history' = push_undo_history(store, work_id, history, nextKey, "Code")
          /\ store' = push_undo_store(store, work_id, nextKey)
          /\ work_id' = work_after(res, work_id, nextKey + 1)
          /\ nextKey' = nextKey + 1
          /\ undo_log' = IF undo_log.made = <<>> \/ undo_log.undone > 0
                         THEN [NoLog EXCEPT !.on = TRUE]
                         ELSE [undo_log EXCEPT !.failed = TRUE,
                                               !.depth = Len(history')]
    /\ LogFrame

UndoTurn ==
    /\ LogReady
    /\ LET u == undo(work_id, history)
       IN /\ work_id' = u.work_id
          /\ history' = u.history
    /\ undo_log' = [undo_log EXCEPT !.undone = IF @ < Len(undo_log.made) THEN @ + 1 ELSE @]
    /\ UNCHANGED <<store, nextKey>>
    /\ LogFrame

LogNext == Upload \/ CodeAttemptOk \/ CodeAttemptFail \/ UndoTurn

LogSpec == LogInit /\ [][LogNext]_vars

\* ------------------------------------------------- the store over time
\* The conversation of LogSpec together with REPL requests, with other
\* sessions that upload and are deleted, and with cleanup_old_sessions,
\* which api.py runs at startup and after every upload.  Keys are handed
\* out in the order of creation, so the tables older than the cutoff are
\* those below some key.

\* DiskStore.delete
delete(st, key) == [k \in (DOMAIN st) \ {key} |-> st[k]]

\* DiskStore.cleanup_old_sessions: every table created before the cutoff is
\* deleted; first_kept is the oldest key not yet older than max_age_hours.
cleanup_old_sessions(st, first_kept) ==
    [k \in { j \in DOMAIN st : j >= first_kept } |-> st[k]]

StoreFrame ==
    UNCHANGED <<pure, conc, repls, sessions_meta, repl_reply, undo_log, llm_cache, sess,
                impl, llm_ok, agentVars, loopVars, lastStep, snap, execVars>>

\* api.upload of another session.
OtherUpload ==
    /\ impl = "api" /\ phase = "idle"
    /\ nextKey <= MaxLogKeys /\ Cardinality(other_meta) < MaxOthers
    /\ \E tbl \in UploadedTables : store' = write_df(store, nextKey, tbl)
    /\ other_meta' = other_meta \cup {nextKey}
    /\ nextKey' = nextKey + 1
    /\ StoreFrame

\* api.delete_session of another session: its sessions_meta entry is
\* popped and the table under that handle deleted.
DeleteOther ==
    /\ impl = "api" /\ phase = "idle"
    /\ \E k \in other_meta :
          /\ store' = delete(store, k)
          /\ other_meta' = other_meta \ {k}
    /\ UNCHANGED nextKey
    /\ StoreFrame

\* api.cleanup_old_sessions: time has passed, some of the tables are older
\* than session_ttl_hours.
Cleanup ==
    /\ impl = "api" /\ phase = "idle"
    /\ \E first_kept \in 2..nextKey :
          /\ \E k \in DOMAIN store : k < first_kept
          /\ store' = cleanup_old_sessions(store, first_kept)
    /\ UNCHANGED <<nextKey, other_meta>>
    /\ StoreFrame

StoreNext ==
    \/ Upload \/ CodeAttemptOk \/ CodeAttemptFail \/ UndoTurn \/ Repl
    \/ OtherUpload \/ DeleteOther \/ Cleanup

StoreSpec == LogInit /\ [][StoreNext]_vars

\* ------------------------------------------------------ SessionService
\* The sessions directory: the session files <id>.json and index.json, the
\* latter reduced to the ids it lists.  save_session and delete_session run
\* for callers that may be threads or processes; no lock is taken, so the
\* steps of two calls interleave between the file operations: the session
\* file written or removed, the index read (_load_index), the index
\* written (_save_index).  With sess.serialised a call starts only when no
\* other is in progress.  Calls in progress at the same time are for
\* different sessions.  sess.saved is the set of ids whose last completed
\* call is a save.  File operations are taken not to fail.
SessionIds == 1..MaxSessions
Callers == 1..MaxParallel

SessInit ==
    /\ impl = "service" /\ llm_ok = TRUE
    /\ FreshState
    /\ pure = NoPure /\ conc = NoConc /\ undo_log = NoLog /\ llm_cache = NoCache
    /\ \E b \in BOOLEAN :
          sess = [on |-> TRUE, serialised |-> b, files |-> {}, index |-> {},
                  pc |-> [c \in Callers |-> "idle"],
                  sid |-> [c \in Callers |-> 0],
                  loaded |-> [c \in Callers |-> {}],
                  saved |-> {}, calls |-> 0]

SessFrame ==
    UNCHANGED <<pure, conc, repls, sessions_meta, repl_reply, undo_log, llm_cache,
                other_meta, impl, llm_ok, store, nextKey, agentVars, loopVars, lastStep,
                snap, execVars>>

\* list_sessions: the entries of the index (a dict keyed by session id).
list_sessions(index) == index

\* load_session returns a state exactly for the ids whose file exists.
load_session(files, id) == id \in files

\* A caller enters save_session or delete_session.
SessCall(c) ==
    /\ sess.on /\ sess.pc[c] = "idle"
    /\ sess.calls < MaxCalls
    /\ sess.serialised => \A d \in Callers : sess.pc[d] = "idle"
    /\ \E id \in SessionIds, op \in {"save", "delete"} :
          /\ \A d \in Callers : sess.pc[d] /= "idle" => sess.sid[d] /= id
          /\ sess' = [sess EXCEPT !.pc[c] = op, !.sid[c] = id, !.calls = @ + 1]
    /\ SessFrame

\* save_session lines 83-89: the session file is written.
SaveFile(c) ==
    /\ sess.on /\ sess.pc[c] = "save"
    /\ sess' = [sess EXCEPT !.files = @ \cup {sess.sid[c]}, !.pc[c] = "save_load"]
    /\ SessFrame

\* delete_session lines 113-115: the session file is removed.
DeleteFile(c) ==
    /\ sess.on /\ sess.pc[c] = "delete"
    /\ sess' = [sess EXCEPT !.files = @ \ {sess.sid[c]}, !.pc[c] = "delete_load"]
    /\ SessFrame

\* index = self._load_index() (lines 69 and 119); delete_session returns
\* when the id is not in the index it loaded.
LoadIndex(c) ==
    /\ sess.on /\ sess.pc[c] \in {"save_load", "delete_load"}
    /\ sess' = IF sess.pc[c] = "delete_load" /\ sess.sid[c] \notin sess.index
               THEN [sess EXCEPT !.pc[c] = "idle", !.saved = @ \ {sess.sid[c]}]
               ELSE [sess EXCEPT !.loaded[c] = sess.index,
                                 !.pc[c] = IF sess.pc[c] = "save_load"
                                           THEN "save_store" ELSE "delete_store"]
    /\ SessFrame

\* The entry is set or deleted in the loaded dict and the dict is written
\* back: self._save_index(index) (lines 70-76 and 121-122).
SaveIndex(c) ==
    /\ sess.on /\ sess.pc[c] \in {"save_store", "delete_store"}
    /\ sess' = IF sess.pc[c] = "save_store"
               THEN [sess EXCEPT !.index = sess.loaded[c] \cup {sess.sid[c]},
                                 !.saved = @ \cup {sess.sid[c]},
                                 !.loaded[c] = {}, !.pc[c] = "idle"]
               ELSE [sess EXCEPT !.index = sess.loaded[c] \ {sess.sid[c]},
                                 !.saved = @ \ {sess.sid[c]},
                                 !.loaded[c] = {}, !.pc[c] = "idle"]
    /\ SessFrame

SessNext ==
    \E c \in Callers :
        SessCall(c) \/ SaveFile(c) \/ DeleteFile(c) \/ LoadIndex(c) \/ SaveIndex(c)

SessSpec == SessInit /\ [][SessNext]_vars

\* ------------------------------------------------ EXECUTE and the cache
\* The first part of AgentService.execute / execute_node (lines 161-194 /
\* 477-518), one statement at a time: build the prompt, look it up when
\* settings.enable_cache, call the model when res is None, parse, store,
\* and hand res to the dispatch.  llm_cache.log lists what the step did.
\* An entry is fresh until its time to live has passed.

\* SimpleCache.get: [value, entries]; an expired entry is deleted.
cache_get(entries, key) ==
    IF entries[key] = NoEntry THEN [value |-> NoRes, entries |-> entries]
    ELSE IF ~entries[key].fresh
    THEN [value |-> NoRes, entries |-> [entries EXCEPT ![key] = NoEntry]]
    ELSE [value |-> entries[key].value, entries |-> entries]

\* SimpleCache.set
cache_set(entries, key, value) ==
    [entries EXCEPT ![key] = [value |-> value, fresh |-> TRUE]]

\* Variant: the model is called whatever the lookup returned.
needs_call_always(res) == TRUE

\* "if res is None"
needs_call(res) == res = NoRes

CacheCompletions == {"{answer}", "{code}", "plain text", "text {not json}"}

CacheInit ==
    /\ impl \in {"service", "api"} /\ llm_ok = TRUE
    /\ FreshState
    /\ pure = NoPure /\ conc = NoConc /\ undo_log = NoLog
    /\ sess = NoSess
    /\ \E b \in BOOLEAN : llm_cache = [NoCache EXCEPT !.on = TRUE, !.enable_cache = b]

CacheFrame ==
    UNCHANGED <<pure, conc, repls, sessions_meta, repl_reply, undo_log, other_meta, sess, impl, llm_ok,
                store, nextKey, agentVars, loopVars, lastStep, snap, execVars>>

\* prompt = build_prompt(state); res = None
ExecBegin ==
    /\ llm_cache.on /\ llm_cache.pc = "idle"
    /\ llm_cache.steps < MaxCacheSteps
    /\ \E p \in Prompts :
          llm_cache' = [llm_cache EXCEPT
                           !.prompt = p, !.res = NoRes, !.log = <<>>,
                           !.before = llm_cache.entries[p],
                           !.pc = IF llm_cache.enable_cache THEN "lookup" ELSE "call"]
    /\ CacheFrame

\* res = llm_cache.get(cache_key)
CacheLookup ==
    /\ llm_cache.pc = "lookup"
    /\ LET g == cache_get(llm_cache.entries, llm_cache.prompt)
       IN llm_cache' = [llm_cache EXCEPT
                           !.res = g.value, !.entries = g.entries,
                           !.before = g.entries[llm_cache.prompt],
                           !.log = Append(@, IF g.value = NoRes THEN "get_miss"
                                             ELSE "get_hit"),
                           !.pc = IF needs_call(g.value) THEN "call" ELSE "dispatch"]
    /\ CacheFrame

\* raw = llm.invoke(...); res = json.loads(...) or the answer wrapper.  A
\* failure of the call or of json.loads is handled by the except branch,
\* which returns from the node.
CompletionCall ==
    /\ llm_cache.pc = "call"
    /\ \/ llm_cache' = [llm_cache EXCEPT !.log = Append(@, "invoke_fail"),
                                          !.pc = "done"]
       \/ \E raw \in CacheCompletions :
             IF parse_completion(raw).raised
             THEN llm_cache' = [llm_cache EXCEPT
                                   !.log = @ \o <<"invoke", "parse_fail">>,
                                   !.pc = "done"]
             ELSE llm_cache' = [llm_cache EXCEPT
                                   !.log = Append(@, "invoke"),
                                   !.res = [action |-> parse_completion(raw).action,
                                            content |-> parse_completion(raw).content],
                                   !.pc = IF llm_cache.enable_cache THEN "store"
                                          ELSE "dispatch"]
    /\ CacheFrame

\* llm_cache.set(cache_key, res, ttl=...)
CacheStore ==
    /\ llm_cache.pc = "store"
    /\ llm_cache' = [llm_cache EXCEPT
                        !.entries = cache_set(@, llm_cache.prompt, llm_cache.res),
                        !.log = Append(@, "set"),
                        !.pc = "dispatch"]
    /\ CacheFrame

\* The dispatch on res["action"] (modelled by the Execute actions) and the
\* return of the node.
ExecReturn ==
    /\ llm_cache.pc \in {"dispatch", "done"}
    /\ llm_cache' = [llm_cache EXCEPT !.pc = "idle", !.steps = @ + 1]
    /\ CacheFrame

\* Between two steps the time to live of an entry passes.
EntryExpires ==
    /\ llm_cache.on /\ llm_cache.pc = "idle"
    /\ \E p \in Prompts :
          /\ llm_cache.entries[p].fresh
          /\ llm_cache' = [llm_cache EXCEPT !.entries[p].fresh = FALSE]
    /\ CacheFrame

CacheNext ==
    ExecBegin \/ CacheLookup \/ CompletionCall \/ CacheStore \/ ExecReturn \/ EntryExpires

CacheSpec == CacheInit /\ [][CacheNext]_vars

\* ---------------------------------------------------------- specification
Execute ==
    \/ ExecuteNoLLM \/ ExecuteLLMFail \/ ExecuteAnswer \/ ExecuteVisualize
    \/ ExecuteUnknown \/ ExecuteCode \/ ExecuteCodeReturn

Executor ==
    \/ SupStart \/ WorkerRun \/ WorkerPublish \/ WorkerExit
    \/ JoinTimeout \/ JoinExit \/ SupCheckAlive \/ SupJoinTerminated

\* Everything the program does on its own once a request has arrived.
Step == Execute \/ Executor \/ Eda \/ UndoNode \/ ExportNode \/ TurnEnd

Next == Upload \/ TurnBegin \/ Repl \/ Step

Spec == Init /\ [][Next]_vars

\* A request handler keeps running, the worker keeps running, timers fire.
LiveSpec == Spec /\ WF_vars(Step)

\* ================================================================= claims
TurnActive == phase \in {"running", "exec"}

\* C1: after an EXECUTE step whose code action failed (validation
\* rejection, runtime fault, output-contract violation, timeout, worker
\* crash), the working handle equals the working handle before the step.
C1_FailedCodeKeepsWorkingHandle ==
    lastStep = "code_fail" => work_id = snap.work

C1_Witness ==
    /\ lastStep = "code_fail" /\ snap.pushed
    /\ result.err = "Execution timed out"
    /\ work_id /= NoKey

\* C2: in a turn that starts with retry counter 0 the EXECUTE node runs at
\* most MAX_RETRIES times; after the third failed attempt control is at
\* human_input and the loop does not enter EXECUTE again.
C2_AtMostMaxRetriesAttempts ==
    rc0 = 0 =>
        /\ attempts <= MAX_RETRIES
        /\ (attempts = MAX_RETRIES /\ phase /= "exec") => next_node /= "execute"
        /\ (attempts = MAX_RETRIES /\ lastStep = "code_fail") => next_node = "human_input"

C2_Witness ==
    /\ rc0 = 0 /\ attempts = MAX_RETRIES
    /\ lastStep = "code_fail" /\ next_node = "human_input"
    /\ Len(history) = MAX_RETRIES

\* C3 (as claimed): whenever control is at human_input the retry counter
\* is 0.
C3_RetryCounterZeroAtHumanInput ==
    next_node = "human_input" => retry_count = 0

\* C4 (as claimed): in every reachable state the retry counter lies in
\* 0..MAX_RETRIES.
C4_RetryCounterBounded ==
    retry_count \in 0..MAX_RETRIES

\* C5 (as claimed): a push immediately followed by a pop leaves the
\* working handle equal to the handle before the push, and the stack equal
\* to the stack before the push.
C5_PushPopRestoresHandle ==
    snap.op = "push_pop" => (work_id = snap.work /\ history = snap.hist)

\* C5 (amended): a push that appended an entry, immediately followed by a
\* pop, leaves the working table equal in content to the table before the
\* push, held under the snapshot's fresh handle (not the handle before the
\* push), and the stack equal to the stack before the push.
C5_PushPopRestoresTable ==
    snap.op = "push_pop" =>
        /\ get_df_ok(store, work_id)
        /\ store[work_id] = snap.tbl
        /\ work_id /= snap.work
        /\ history = snap.hist

C5_Witness ==
    /\ snap.op = "push_pop" /\ lastStep = "undo"
    /\ snap.hist /= <<>>

C7_SnapshotBeforeCommit ==
    /\ (snap.op \in {"code_run", "code_ok"}) =>
          /\ Len(history) = Len(snap.hist) + 1
          /\ SubSeq(history, 1, Len(snap.hist)) = snap.hist
          /\ get_df_ok(store, history[Len(history)].snapshot_key)
          /\ store[history[Len(history)].snapshot_key] = snap.tbl
    /\ (snap.op = "code_run") => work_id = snap.work
    /\ (snap.op = "code_ok") => (work_id /= snap.work /\ store[work_id] = snap.new)
    /\ (snap.op = "commit_undo") =>
          /\ get_df_ok(store, work_id)
          /\ store[work_id] = snap.tbl
          /\ history = snap.hist

C7_Witness ==
    /\ snap.op = "commit_undo" /\ lastStep = "undo"
    /\ snap.new /= snap.tbl
    /\ store[work_id] = snap.tbl

C9_WorkerReclaimedOnReturn ==
    sup = "returned" => ~is_alive(worker)

C9_Witness ==
    /\ sup = "returned" /\ worker = "dead"
    /\ result.err = "Execution timed out" /\ call.code.behav = "ok"

\* C10 (as claimed): every result exec_code returns has exactly one of
\* (table, error) populated.
C10_ExactlyOneOfTableAndError ==
    result /= NoResult => ((result.df /= NoTable) /= (result.err /= "None"))

\* C10 (amended): every result exec_code returns carries a table; the error
\* is populated exactly when the execution failed, and then the table is
\* the unchanged input table; without an error the table is the one the
\* code left in df.
C10_TableAlwaysErrorOnFailure ==
    result /= NoResult =>
        /\ result.df \in Tables
        /\ (result.err /= "None") => result.df = call.df
        /\ (result.err = "None") =>
              (validate_code(call.code).ok /\ call.code.behav = "ok"
               /\ result.df = call.code.tbl /\ result.out = call.code.out)

C10_Witness ==
    /\ result /= NoResult /\ result.err = "Variable 'df' must be a DataFrame"
    /\ result.df = call.df /\ result.out = "txt"

\* C11: code the validator rejects is never run: no worker exists for it,
\* the result of the call is the input table, the validator's reason and no
\* captured output; for a text containing 'import os' within the length
\* limit the reason names OS module access; the working handle stays.
C11_RejectedCodeNeverRuns ==
    (call.code.len > max_code_length \/ call.code.pats /= {}) =>
        /\ phase /= "exec" /\ sup = "none" /\ worker = "none"
        /\ return_dict = EmptyDict
        /\ result.df = call.df /\ result.out = ""
        /\ result.err = validate_code(call.code).msg
        /\ (1 \in call.code.pats /\ call.code.len <= max_code_length)
              => result.err = "OS module access not allowed"
        /\ call.code.len > max_code_length => result.err = "Code too long"
        /\ lastStep = "code_fail" => work_id = snap.work

C11_Witness ==
    /\ call.code.pats = {1, 9} /\ call.code.len <= max_code_length
    /\ call.code.out = "txt" /\ call.code.tbl /= call.df
    /\ lastStep = "code_fail" /\ error = "OS module access not allowed"
    /\ work_id = snap.work /\ work_id /= NoKey

\* C12: validate_code rejects a text longer than the maximum with the
\* length reason whatever it contains; otherwise it rejects with the reason
\* of the first denylist entry, in the list's order, that occurs in the
\* text, and accepts exactly when none occurs.
C12_ValidateCodeFirstMatch ==
    (pure.fn = "validate_code" /\ pure.done) =>
        LET c == pure.code
            r == pure.out
        IN /\ c.len > max_code_length => r = [ok |-> FALSE, msg |-> "Code too long"]
           /\ (c.len <= max_code_length /\ c.pats /= {}) =>
                 /\ ~r.ok
                 /\ \E i \in c.pats :
                       /\ \A j \in c.pats : i <= j
                       /\ r.msg = dangerous_patterns[i]
           /\ (c.len <= max_code_length /\ c.pats = {}) => r = [ok |-> TRUE, msg |-> ""]
           /\ r.ok <=> (c.len <= max_code_length /\ c.pats = {})

C12_Witness ==
    /\ pure.fn = "validate_code" /\ pure.done
    /\ pure.code.len = max_code_length /\ pure.code.pats = {4, 9}
    /\ pure.out = [ok |-> FALSE, msg |-> "Network access not allowed"]

\* C13: when the caller admits one turn at a time, no commit replaces a
\* handle other than the one its turn read, and at every commit the top
\* snapshot holds the table the commit replaces; when turns run in parallel
\* on the same state such commits are reachable (the witness).
C13_SerialisedTurnsDoNotRace ==
    (conc.on /\ conc.serialised) => (~conc.lost /\ ~conc.stale_top)

C13_Witness ==
    /\ conc.on /\ ~conc.serialised
    /\ conc.lost /\ conc.stale_top
    /\ \A t \in ParallelTurns : conc.pc[t] = "done"
    /\ Len(history) = MaxParallel

\* C14: the response of a turn carries at most one tool-call descriptor,
\* also when several EXECUTE attempts of the turn each recorded one.
C14_AtMostOneDescriptorPerTurn ==
    (phase = "idle" /\ turns > 0) =>
        /\ Len(Response.functionCalls) <= 1
        /\ \A i \in 1..Len(Response.functionCalls) :
              Response.functionCalls[i] \in {"runPythonAnalysis", "generateVisualization"}

C14_Witness ==
    /\ impl = "api" /\ phase = "idle" /\ turns = 1
    /\ attempts = MAX_RETRIES /\ Len(history) = MAX_RETRIES
    /\ Response.functionCalls = <<"runPythonAnalysis">>

\* C15: once an upload has succeeded the working handle is non-empty in
\* every later state, whatever execute, undo, export and REPL operations
\* follow; a failed upload leaves the raw and the working handle empty as
\* they were.
C15_WorkingHandleSetAfterUpload ==
    /\ raw_id /= NoKey => work_id /= NoKey
    /\ (lastStep = "upload" /\ error = "Upload failed") =>
          (raw_id = NoKey /\ work_id = NoKey /\ store = << >>)

C15_Witness ==
    /\ impl = "api" /\ phase = "idle" /\ turns > 0
    /\ snap.op = "undo" /\ history = <<>>
    /\ raw_id /= NoKey /\ work_id /= NoKey /\ work_id /= raw_id

\* C16 (as claimed): when a failed code action uses up the retries, the
\* turn ends at human_input with the error as the visible message, not the
\* instruction or an earlier message.
C16_ExhaustedCodeErrorIsSurfaced ==
    (lastStep = "code_fail" /\ next_node = "human_input") =>
        /\ user_message \notin Instructions
        /\ user_message \in {error, "Error (Failed after retries)"}

\* C17 (as claimed): a failed completion call is retried while the counter
\* is below MAX_RETRIES; when the retries are used up the message names the
\* connection and the counter is 0; and whenever a turn whose last error
\* was a failed completion call has returned, the counter is 0, whatever
\* action a later attempt of the turn succeeded with.
C17_CompletionFailureResetsCounter ==
    /\ (lastStep = "llm_fail" /\ next_node = "execute") =>
          retry_count \in 1..(MAX_RETRIES - 1)
    /\ (lastStep = "llm_fail" /\ next_node = "human_input") =>
          (retry_count = 0 /\ user_message = "AI Connection Failed")
    /\ (phase = "idle" /\ error = "LLM Error: transport") => retry_count = 0

\* C18 (as claimed): after an EXECUTE attempt whose completion text could
\* not be parsed as the tagged object, control is at human_input, the
\* message is that text, the error is cleared and the retry counter is 0.
C18_UnparseableTextIsAnswer ==
    (lastStep \in {"unparsed", "parse_fail"}) =>
        /\ next_node = "human_input"
        /\ user_message \in {raw \in Completions : ~has_object(raw) \/ ~json_loads_ok(raw)}
        /\ error = "None"
        /\ retry_count = 0

\* C19 (as claimed): comparing a table with a table of identical shape,
\* columns and values yields exactly the statement "No changes detected.".
C19_IdenticalTablesNoChanges ==
    (pure.fn = "compare_dataframes" /\ pure.done /\ pure.df_old = pure.df_new) =>
        (Len(pure.out) = 1 /\ pure.out[1][1] = "No changes detected.")

\* C19 (amended): comparing a table of at most 10,000 rows with a table of
\* identical shape, columns and values (two missing values counting as
\* equal) yields exactly the statement "No changes detected."; above 10,000
\* rows it yields exactly the size-ceiling notice.
C19_IdenticalTablesNoChangesUpToCeiling ==
    (pure.fn = "compare_dataframes" /\ pure.done /\ pure.df_old = pure.df_new) =>
        /\ Len(pure.out) = 1
        /\ pure.out[1][1] = (IF pure.df_old.len <= DiffRowCeiling
                             THEN "No changes detected." ELSE "Data too large")

C19_Witness ==
    /\ pure.fn = "compare_dataframes" /\ pure.done /\ pure.df_old = pure.df_new
    /\ pure.df_old.len = 1 /\ pure.df_old.columns = <<"a", "b">>
    /\ pure.df_old.rows = << <<NaN, 2>> >>
    /\ Len(pure.out) = 1 /\ pure.out[1][1] = "No changes detected."

\* C20: when the new table has one row and one column more than the old
\* one, the statements are the shape change, the row delta +1 and the column
\* delta +1 in this order, followed only by column statements: no changed-
\* cell count and no example statement.
C20_AddedRowAndColumn ==
    (/\ pure.fn = "compare_dataframes" /\ pure.done /\ pure.df_old /= NoDf
     /\ pure.df_new.len = pure.df_old.len + 1
     /\ Len(pure.df_new.columns) = Len(pure.df_old.columns) + 1) =>
        /\ Len(pure.out) >= 3
        /\ pure.out[1] = <<"Shape Change", shape(pure.df_old), shape(pure.df_new)>>
        /\ pure.out[2] = <<"Rows", 1>>
        /\ pure.out[3] = <<"Columns", 1>>
        /\ \A i \in 4..Len(pure.out) :
              pure.out[i][1] \in {"New Columns", "Removed Columns"}

C20_Witness ==
    /\ pure.fn = "compare_dataframes" /\ pure.done
    /\ pure.df_old.len = 0 /\ pure.df_old.columns = <<"a">>
    /\ pure.df_new.len = 1 /\ pure.df_new.columns = <<"a", "b">>
    /\ Len(pure.out) = 4 /\ pure.out[4] = <<"New Columns", {"b"}>>

\* C21: a REPL request whose script holds a denylist entry is answered with
\* an error, and the step leaves the working handle, the sessions_meta
\* entry, the undo stack and the store as they were.
C21_DenylistedReplChangesNothing ==
    [][(repls' = repls + 1 /\ repl_reply'.pats /= {}) =>
          /\ repl_reply'.type = "error"
          /\ work_id' = work_id
          /\ sessions_meta' = sessions_meta
          /\ history' = history
          /\ store' = store]_vars

C21_Witness ==
    /\ repl_reply = [pats |-> {11}, type |-> "error"]
    /\ history /= <<>> /\ work_id /= NoKey /\ sessions_meta /= work_id

\* C22 (as claimed): a text equal, ignoring case, to "undo" or "/undo" is
\* routed to UNDO; a text of the form "/export [name]" (the word /export,
\* ignoring case, alone or followed by blanks and a name) is routed to
\* EXPORT and the name, if any, replaces the export filename; every other
\* text is routed to EXECUTE.
C22_ClassificationByForm ==
    (pure.fn = "parse_command" /\ pure.done) =>
        LET cs == pure.text
            words == split(cs)
            isUndo == lower(cs) \in {chars("undo"), chars("/undo")}
            isExport == /\ Head(cs) /= " "
                        /\ Len(words) \in {1, 2}
                        /\ lower(words[1]) = chars("/export")
        IN /\ isUndo => pure.out.next_node = "undo"
           /\ isExport => /\ pure.out.next_node = "export"
                          /\ pure.out.name = IF Len(words) = 2 THEN words[2] ELSE <<>>
           /\ (~isUndo /\ ~isExport) => pure.out.next_node = "execute"

\* C23: an EXECUTE attempt that ends with an unknown action value, like one
\* that ends with a failed code action, adds one to the retry counter and
\* leaves control at EXECUTE when the new counter is below MAX_RETRIES and
\* at human_input otherwise; the loop goes on from a regular node state.
C23_UnknownActionCountsAsFailure ==
    [][(lastStep' \in {"unknown", "code_fail"} /\ safety' = safety + 1) =>
          /\ retry_count' = retry_count + 1
          /\ next_node' = IF retry_count' < MAX_RETRIES THEN "execute" ELSE "human_input"
          /\ error' /= "None"
          /\ phase' = "running"]_vars

C23_Witness ==
    /\ lastStep = "unknown" /\ attempts = 2 /\ retry_count = 2 /\ next_node = "execute"
    /\ error = "Unknown action"

\* C24: the UNDO step on an empty undo stack leaves the working handle, the
\* empty stack and the retry counter as they were, sets the message to
\* "Nothing to undo." and hands over to EDA; the EDA step that follows
\* hands over to human_input and changes none of these.
C24_UndoOnEmptyStackIsNoOp ==
    [][/\ (phase = "running" /\ next_node = "undo" /\ history = <<>>
            /\ safety' = safety + 1) =>
              /\ work_id' = work_id /\ history' = <<>>
              /\ user_message' = "Nothing to undo."
              /\ retry_count' = retry_count /\ error' = error
              /\ next_node' = "eda" /\ phase' = "running"
       /\ (snap.op = "undo_empty" /\ lastStep = "undo" /\ safety' = safety + 1) =>
              /\ next_node = "eda" /\ next_node' = "human_input"
              /\ work_id' = work_id /\ history' = <<>>
              /\ user_message' = "Nothing to undo."
              /\ retry_count' = retry_count
       /\ (snap.op = "undo_empty" /\ lastStep = "eda" /\ phase = "running") =>
              phase' = "idle"]_vars

C24_Witness ==
    /\ snap.op = "undo_empty" /\ lastStep = "eda" /\ phase = "idle"
    /\ next_node = "human_input" /\ user_message = "Nothing to undo."
    /\ history = <<>> /\ work_id = raw_id /\ work_id /= NoKey /\ retry_count = MAX_RETRIES

\* C25 (as claimed): after k successful code actions that made T1..Tk from
\* T0, the j-th of j <= k consecutive undo turns leaves the working table
\* equal to T(k-j), and the stack one entry shorter for each undo.
C25_UndoRestoresInReverseOrder ==
    (/\ undo_log.on /\ undo_log.made /= <<>>
     /\ undo_log.undone \in 1..(Len(undo_log.made) - 1)) =>
        /\ get_df_ok(store, work_id)
        /\ store[work_id] = undo_log.made[Len(undo_log.made) - undo_log.undone]
        /\ Len(history) = undo_log.depth - undo_log.undone

\* C26: the EXPORT step, whether the write succeeds or fails, leaves control
\* at human_input with a message that reports the outcome, and leaves the
\* working handle, the undo stack, the retry counter and the error as they
\* were; the loop then returns without running another node.
C26_ExportNeverFatalNeverRetried ==
    [][/\ (phase = "running" /\ next_node = "export" /\ safety' = safety + 1) =>
              /\ next_node' = "human_input" /\ phase' = "running"
              /\ user_message' \in {"Saved", "Export failed"}
              /\ user_message' = "Saved" => get_df_ok(store, work_id)
              /\ work_id' = work_id /\ history' = history
              /\ retry_count' = retry_count /\ error' = error
       /\ (phase = "running" /\ lastStep = "export") => phase' = "idle"]_vars

C26_Witness ==
    /\ lastStep = "export" /\ phase = "idle" /\ next_node = "human_input"
    /\ user_message = "Export failed" /\ get_df_ok(store, work_id)
    /\ history /= <<>> /\ retry_count = MAX_RETRIES

\* C27: in an EXECUTE step with caching enabled the completion call comes
\* after the cache lookup; after a lookup that returned a cached response
\* the step makes no completion call; and a step whose completion call
\* failed has stored nothing: the prompt's cache entry is as the lookup
\* left it.
C27_CacheLookupBeforeCompletion ==
    (llm_cache.on /\ llm_cache.enable_cache) =>
        LET log == llm_cache.log
            calls == { i \in 1..Len(log) : log[i] \in {"invoke", "invoke_fail"} }
            lookups == { i \in 1..Len(log) : log[i] \in {"get_hit", "get_miss"} }
            hits == { i \in 1..Len(log) : log[i] = "get_hit" }
            failures == { i \in 1..Len(log) : log[i] \in {"invoke_fail", "parse_fail"} }
            sets == { i \in 1..Len(log) : log[i] = "set" }
        IN /\ \A i \in calls : \E j \in lookups : j < i
           /\ hits /= {} => calls = {}
           /\ Cardinality(calls) <= 1
           /\ failures /= {} =>
                 /\ sets = {}
                 /\ llm_cache.entries[llm_cache.prompt] = llm_cache.before

C27_Witness ==
    /\ llm_cache.on /\ llm_cache.enable_cache /\ llm_cache.steps = 1
    /\ llm_cache.pc = "dispatch" /\ llm_cache.log = <<"get_hit">>
    /\ llm_cache.res = [action |-> "code", content |-> "code"]

\* C28: for two tables with equal shape and equal column list and at most
\* 10,000 rows, with k the number of cells whose old and new values differ
\* and are not both missing: when k > 0 the statements are one count
\* statement reporting k and one statement of min(k, 5) examples, each
\* naming a changed cell by row and column with its old and new value.
C28_ChangedCellsCountedAndSampled ==
    (/\ pure.fn = "compare_dataframes" /\ pure.done /\ pure.df_old /= NoDf
     /\ shape(pure.df_old) = shape(pure.df_new)
     /\ pure.df_old.columns = pure.df_new.columns
     /\ pure.df_old.len <= DiffRowCeiling) =>
        LET o == pure.df_old
            n == pure.df_new
            changed == { rc \in (1..o.len) \X (1..Len(o.columns)) :
                           /\ o.rows[rc[1]][rc[2]] /= n.rows[rc[1]][rc[2]]
                           /\ ~(o.rows[rc[1]][rc[2]] = NaN /\ n.rows[rc[1]][rc[2]] = NaN) }
            k == Cardinality(changed)
        IN k > 0 =>
             /\ Len(pure.out) = 2
             /\ pure.out[1] = <<"Values Changed", k>>
             /\ pure.out[2][1] = "Sample Changes"
             /\ Len(pure.out[2][2]) = (IF k < 5 THEN k ELSE 5)
             /\ \A i \in 1..Len(pure.out[2][2]) :
                   \E rc \in changed :
                      pure.out[2][2][i] = <<rc[1] - 1, o.columns[rc[2]],
                                            o.rows[rc[1]][rc[2]], n.rows[rc[1]][rc[2]]>>

\* C29: when exec_code has returned for code that finished without df
\* bound, with df bound to something that is not a table, or by raising,
\* its result is an error and its table is the table it was called with,
\* never one from the worker; the node then takes its failure branch.  The
\* error is the contract message, or the fault category and message of the
\* exception, unless the supervisor cut the call by the timeout or the
\* result channel failed (neither happens with the in-process executor).
C29_ContractViolationIsError ==
    (call.code.behav \in {"nodf", "baddf", "raise"} /\ result /= NoResult) =>
        /\ result.err /= "None"
        /\ result.df = call.df
        /\ result.df /= return_dict.df
        /\ lastStep /= "code_ok"
        /\ result.err \in
             { CASE call.code.behav = "nodf" -> "Code must define 'df' variable"
                 [] call.code.behav = "baddf" -> "Variable 'df' must be a DataFrame"
                 [] OTHER -> "RuntimeFault: message",
               "Execution timed out", "Execution wrapper error" }
        /\ impl = "api" => result.err \notin {"Execution timed out", "Execution wrapper error"}

C29_Witness ==
    /\ impl = "service" /\ sup = "returned" /\ worker = "dead"
    /\ call.code.behav = "baddf"
    /\ return_dict.error = "Variable 'df' must be a DataFrame"
    /\ result = [df |-> call.df, err |-> "Variable 'df' must be a DataFrame", out |-> "txt"]

\* C30 (as claimed): whenever exec_code has returned for code it ran
\* (success, runtime fault, output-contract violation or timeout), the
\* captured text it returns is the text the code printed.
C30_StdoutReturnedOnEveryExit ==
    (/\ result /= NoResult
     /\ validate_code(call.code).ok
     /\ call.code.behav \in {"ok", "raise", "nodf", "baddf", "loop"}
     /\ result.err /= "Execution wrapper error") =>
        result.out = call.code.out

\* C30 (amended): whenever exec_code has returned for code it ran, the
\* captured text it returns is the text the code printed on the success,
\* runtime-fault and output-contract exits and on the timeout exit of the
\* in-process executor; on the timeout exit of the process executor, where
\* the worker is terminated, it is empty.
C30_StdoutReturnedUnlessWorkerTerminated ==
    (/\ result /= NoResult
     /\ validate_code(call.code).ok
     /\ call.code.behav \in {"ok", "raise", "nodf", "baddf", "loop"}
     /\ result.err /= "Execution wrapper error") =>
        result.out = (IF result.err = "Execution timed out" THEN ""
                      ELSE call.code.out)

C30_Witness ==
    /\ impl = "service" /\ sup = "returned" /\ worker = "dead"
    /\ call.code.behav = "raise" /\ call.code.out = "txt"
    /\ result.err = "RuntimeFault: message" /\ result.out = "txt"

\* C31: the result channel return_dict holds at most one outcome of an
\* execution, a table or an error and never both, and the success mark only
\* with the table and the captured output already written; the supervisor
\* reads it only when the worker is no longer running; it returns a table
\* of the channel only when the success mark is set; and a call in which
\* the worker was terminated returns the timeout error, never a success.
C31_OneOutcomeThroughChannel ==
    [][/\ ~(return_dict'.df /= NoTable /\ return_dict'.error /= "unset")
       /\ return_dict'.success =>
             (return_dict'.df /= NoTable /\ return_dict'.stdout /= "unset")
       /\ (sup = "joined" /\ sup' = "returned") =>
             /\ worker \notin AliveStates
             /\ result'.err = "None" =>
                   (return_dict.success /\ result'.df = return_dict.df)
             /\ result'.err /= "None" => result'.df = call.df
       /\ (sup = "join2" /\ sup' = "returned") =>
             /\ worker \notin AliveStates
             /\ result'.err = "Execution timed out"
             /\ result'.df = call.df]_vars

C31_Witness ==
    /\ sup = "returned" /\ worker = "dead"
    /\ result.err = "Execution timed out"
    /\ return_dict.df /= NoTable /\ return_dict.stdout /= "unset"
    /\ ~return_dict.success

\* C32: a code action whose execution has failed leaves the undo stack as
\* it was before the action.
C32_FailedCodeLeavesUndoStack ==
    (lastStep = "code_fail") => history = snap.hist

\* C33: when the first EXECUTE attempt of a turn has failed (failed code,
\* unknown action, failed or unparseable completion), the next node is
\* EXECUTE again, however earlier turns ended.
C33_FullRetryBudgetEveryTurn ==
    (/\ phase = "running" /\ attempts = 1
     /\ lastStep \in {"code_fail", "unknown", "llm_fail", "parse_fail"}) =>
        next_node = "execute"

\* C34: the descriptor a turn's response carries is set only by an EXECUTE
\* step of that turn that dispatched a visualize or a code action: no step
\* with another outcome (answer, clarify, unknown action, failed
\* completion) gives the turn a descriptor.
C34_DescriptorOnlyFromThisTurn ==
    [][(tool' /= tool /\ tool' /= "None") =>
          lastStep' \in {"visualize", "code_run", "code_ok", "code_fail"}]_vars

\* C35: when the first EXECUTE attempt of a turn after a successful upload
\* builds its prompt, the prompt carries no error: the state's last error
\* is empty, whatever happened in earlier turns.
C35_FirstPromptCarriesNoError ==
    (AtNode("execute") /\ attempts = 0 /\ llm_ok /\ raw_id /= NoKey) =>
        build_prompt(error, retry_count, user_message).err = "None"

\* C36: between requests the handle recorded in sessions_meta for the
\* session equals the working handle of the session's AgentState.
C36_SessionsMetaFollowsWorkingHandle ==
    (impl = "api" /\ phase = "idle" /\ sessions_meta /= NoSession) =>
        sessions_meta = work_id

\* C37: after a successful upload, the working handle and every snapshot
\* handle of the undo stack refer to a table that exists in the store.
C37_HandlesReferToStoredTables ==
    (impl = "api" /\ raw_id /= NoKey) =>
        /\ get_df_ok(store, work_id)
        /\ \A i \in 1..Len(history) : get_df_ok(store, history[i].snapshot_key)

\* C38: the snapshot handles in the undo stack are pairwise distinct and
\* none of them is the current working handle.
C38_SnapshotHandlesDistinct ==
    /\ \A i, j \in 1..Len(history) :
          i /= j => history[i].snapshot_key /= history[j].snapshot_key
    /\ \A i \in 1..Len(history) : history[i].snapshot_key /= work_id

C38_Witness ==
    /\ phase = "idle" /\ Len(history) = 2 /\ snap.op = "push_pop"
    /\ work_id \notin {raw_id, NoKey}
    /\ get_df_ok(store, history[1].snapshot_key)
    /\ get_df_ok(store, history[2].snapshot_key)
    /\ store[history[1].snapshot_key] = store[history[2].snapshot_key]
    /\ store[work_id] = store[history[1].snapshot_key]

\* C39: when no save_session or delete_session call is in progress,
\* list_sessions returns exactly the ids saved and not deleted afterwards,
\* and load_session returns a state for exactly those ids, also after calls
\* for different sessions that ran interleaved.
C39_IndexListsSavedSessions ==
    (sess.on /\ \A c \in Callers : sess.pc[c] = "idle") =>
        /\ list_sessions(sess.index) = sess.saved
        /\ \A id \in SessionIds : load_session(sess.files, id) <=> id \in sess.saved

=============================================================================
